---- MODULE Spec2Model ----
(***************************************************************************)
(* A state-machine model of the besobot trading engine:                    *)
(*   - BacktestEngine (src/backtesting/backtest_engine.py): the bar loop   *)
(*     of run_backtest with its exit, entry and equity steps;              *)
(*   - MultiInstrumentBot (src/core/bot_core.py): one live cycle;          *)
(*   - position sizing of the bot, the RiskManager and the engine.         *)
(*                                                                         *)
(* Units.  Prices are integers in ticks of 0.0001.  Lot sizes are integers *)
(* in hundredths of a lot (the code rounds lots to two decimals).  Money   *)
(* is an integer in units of 0.0001 account currency, so that              *)
(*   price delta x lots x 100  = delta[ticks] x lots[hundredths]           *)
(* is exact.  Confirmation scores are integers in tenths.                  *)
(***************************************************************************)
EXTENDS Integers, Sequences, FiniteSets, TLC

VARIABLES
    mode,             \* which program runs: "backtest", "live" or "sizing"
    \* ---- BacktestEngine ----
    pc,               \* position of run_backtest: "loop" or "done"
    nBars,            \* len(data)
    i,                \* loop index of run_backtest
    position,         \* self.position
    current_balance,  \* self.current_balance
    trades,           \* self.trades
    equity_curve,     \* self.equity_curve
    report,           \* the value run_backtest returns
    hist,             \* what the last bar's iteration did (observation only)
    \* ---- position sizing (pure functions) ----
    szIn,             \* the arguments and the venue's answers of one sizing call
    szOut,            \* the lot sizes the three sizing routines return
    \* ---- MultiInstrumentBot ----
    open_positions,   \* self.open_positions[self.symbol], or NoPosition
    equity_peak,      \* self.equity_peak
    daily_equity_start, \* self.daily_equity_start
    tracker,          \* the trades handed to performance_tracker.add_trade
    now,              \* datetime.now(), in hours
    cycles,           \* calls of run_single_cycle so far
    lhist,            \* what the last cycle did (observation only)
    news_adjusts,     \* the bot has a news filter and the position style
    \* ---- ExitStrategies (pure functions on one position) ----
    tsl,              \* a position under repeated trailing_stop_atr calls
    ppt,              \* a position under repeated partial_profit_taking calls
    \* ---- StrategyOptimizer ----
    opt,              \* an optimizer instance and its call of optimize_parameters
    wf,               \* a call of walk_forward_optimization
    \* ---- run_live_mode ----
    fleet,            \* the bots of run_live_mode: open position, equity peak and trade log of each
    loop,             \* the main trading loop: its position and what its last step did
    \* ---- two backtests compared ----
    pair,             \* two runs of run_backtest side by side, over two bar series
    \* ---- backtest of a flat series ----
    flat,             \* a backtest over a flat bar series, with one of the strategies
    \* ---- performance tracker ----
    pt,               \* a PerformanceTracker, with the statistics last computed from it
    \* ---- indicator functions on malformed input ----
    ind,              \* an indicator function of one of the components, its input and its result
    \* ---- cached reads of market data ----
    cache,            \* a data cache of DataManager or of a bot, the clock and the last read
    \* ---- strategy confirmations on one frame ----
    cf,               \* one call of a strategy's calculate_confirmations, its inputs and its result
    \* ---- on-balance volume ----
    obv,              \* one call of DataManager.calculate_obv, its frame and its result
    \* ---- news adjustment of the risk parameters ----
    nw,               \* one entry of a bot through NewsFilter.adjust_risk_parameters, its inputs and its result
    \* ---- MultiInstrumentBot.mt5_connect ----
    conn              \* a bot and its call of mt5_connect

btVars == <<pc, nBars, i, position, current_balance, trades, equity_curve, report, hist>>

szVars == <<szIn, szOut>>

liveVars == <<open_positions, equity_peak, daily_equity_start, tracker, now, cycles, lhist,
              news_adjusts>>

exVars == <<tsl, ppt>>

optVars == <<opt, wf>>

loopVars == <<fleet, loop>>

pairVars == <<pair>>

flatVars == <<flat>>

ptVars == <<pt>>

indVars == <<ind>>

cacheVars == <<cache>>

cfVars == <<cf>>

obvVars == <<obv>>

newsVars == <<nw>>

connVars == <<conn>>

vars == <<mode, btVars, szVars, liveVars, exVars, optVars, loopVars, pairVars, flatVars, ptVars, indVars, cacheVars, cfVars, obvVars, newsVars, connVars>>

(***************************************************************************)
(* Bounds of the model                                                     *)
(***************************************************************************)
MaxBars == 3          \* bars processed after the warm-up window
BarHours == 36        \* spacing of the series' timestamps, in hours
MaxCycles == 2        \* live cycles run
CycleHours == 36      \* shortest time between two observed live cycles, in hours

(***************************************************************************)
(* Program constants and configuration                                     *)
(***************************************************************************)
WARMUP == 100                 \* range(100, len(data))
INITIAL_BALANCE == 100000000  \* initial_balance=10000, in 0.0001 units
MIN_LOT == 1                  \* "MIN_LOT": 0.01
MAX_LOT == 500                \* "MAX_LOT": 5.0
COMMISSION_PER_LOT == 350     \* "COMMISSION_PER_LOT": 3.5 per lot, per 0.01 lot in 0.0001 units
RISK_PERMILLE == 3            \* "RISK_PERCENT": 0.3
MIN_CONFIRMATIONS == 30       \* "MIN_CONFIRMATIONS": 3, in tenths
MAX_TRADE_HOURS == 72         \* config.get('MAX_TRADE_HOURS', 72)
MAX_DRAWDOWN == 10            \* "MAX_DRAWDOWN": 10.0 (percent)
DAILY_LOSS_LIMIT == 2         \* "DAILY_LOSS_LIMIT": 2.0 (percent)
SPREAD_HALF == 1              \* spread / 2 with spread = 0.0002
SL_MULT_NUM == 3              \* "SL_ATR_MULTIPLIER": 1.5 = 3/2
TP_RR_NUM == 3                \* "TP_RR": 1.5 = 3/2
HALF_DEN == 2                 \* denominator of the two 1.5 multipliers
METAL_POINT == 100            \* distance / 0.01
VALUE_PER_UNIT == 100         \* pnl = delta * lots * 100
LOT_SCALE == 100              \* round(lots, 2): hundredths of a lot
RM_MIN_LOT == 1               \* RiskManager: min_lot = 0.01
RM_MAX_LOT == 500             \* RiskManager: max_lot = 5.0
MAX_OPEN_POSITIONS == 1       \* "MAX_OPEN_POSITIONS": 1
TRAIL_MULT_NUM == 3           \* trailing_stop_atr: multiplier = 1.5 = 3/2
VOL_THRESHOLD == 2            \* volatility_expansion_exit: threshold = 2.0
RSI_EXIT_LEVEL == 70          \* rsi_extreme_exit: exit_level = 70
RSI_FULL == 100               \* rsi_extreme_exit: 100 - exit_level
PERCENT == 100                \* "* 100" of the percentages of check_risk_limits
VOL_MIN_ROWS == 20            \* volatility_expansion_exit: len(df) < 20
RSI_PERIOD == 14              \* rsi_extreme_exit: rsi_period = 14

BasePrice == 18000000         \* 1800.0000, the fixture's gold price

\* The engine's run is modelled for the fixture's configuration, 'XAUUSD'.
BT_SYMBOL == "metal"

\* Bar inputs.  Closes reach a 10.0 gap below and the 1.5-RR target above.
Closes == {BasePrice - 100000, BasePrice, BasePrice + 2250}
Atrs == {0, 1000}
\* Slippage (a draw of np.random.normal): one tick either way.
Slips == {-1, 1}
\* (buy, sell) confirmation scores: below the minimum, a tie at the minimum,
\* a qualifying buy and a qualifying sell.
ConfPairs == {<<20, 0>>, <<30, 30>>, <<45, 30>>, <<30, 45>>}

NoPosition == [open |-> FALSE]

Abs(x) == IF x < 0 THEN -x ELSE x
Max(a, b) == IF a >= b THEN a ELSE b
Min(a, b) == IF a <= b THEN a ELSE b

RECURSIVE SumPnl(_)
SumPnl(ts) == IF ts = <<>> THEN 0 ELSE ts[1].pnl + SumPnl(Tail(ts))

\* Timestamp of bar k (data.index[k]): strictly increasing, BarHours apart.
TimeOf(k) == k * BarHours

(***************************************************************************)
(* Exact rationals [n, d], d > 0, in lowest terms: the sizing code works   *)
(* on quotients before it rounds.                                          *)
(***************************************************************************)
RECURSIVE GCD(_, _)
GCD(a, b) == IF b = 0 THEN a ELSE GCD(b, a % b)

Q(n, d) == LET g == GCD(Abs(n), d) IN [n |-> n \div g, d |-> d \div g]

QMul(x, y) ==
    LET g1 == GCD(Abs(x.n), y.d)
        g2 == GCD(Abs(y.n), x.d)
    IN  Q((x.n \div g1) * (y.n \div g2), (x.d \div g2) * (y.d \div g1))

\* x / y for y > 0
QDiv(x, y) == QMul(x, [n |-> y.d, d |-> y.n])

QSub(x, y) ==
    LET g == GCD(x.d, y.d)
    IN  Q(x.n * (y.d \div g) - y.n * (x.d \div g), (x.d \div g) * y.d)

QMax0(x) == IF x.n < 0 THEN Q(0, 1) ELSE x

\* round(x * scale) for a whole scale: Python's round(x, 2) in hundredths.
\* A quotient beyond a million is kept as its whole part, unscaled: it is far
\* outside every lot bound either way, and scaling it leaves TLC's integers.
QRoundScaled(x, scale) ==
    IF Abs(x.n \div x.d) >= 1000000 THEN x.n \div x.d ELSE
    LET g == GCD(scale, x.d)
        s == scale \div g
        d == x.d \div g
        m == s * (x.n % d)
        base == s * (x.n \div d) + m \div d
        rem == m % d
    IN  IF 2 * rem > d THEN base + 1
        ELSE IF 2 * rem = d THEN base + (base % 2)
        ELSE base

\* An amount of money units (0.0001) as a rational of the account currency.
Money(u) == Q(u, 10000)

(***************************************************************************)
(* BacktestEngine                                                          *)
(***************************************************************************)

\* BaseStrategy.calculate_sl_tp: <<sl_price, tp_price>>.
calculate_sl_tp(current_price, atr_val, direction) ==
    IF direction = "buy"
    THEN LET sl_price == current_price - (SL_MULT_NUM * atr_val) \div HALF_DEN
         IN  <<sl_price, current_price + (TP_RR_NUM * (current_price - sl_price)) \div HALF_DEN>>
    ELSE LET sl_price == current_price + (SL_MULT_NUM * atr_val) \div HALF_DEN
         IN  <<sl_price, current_price - (TP_RR_NUM * (sl_price - current_price)) \div HALF_DEN>>

\* The fill of enter_trade: close +/- spread/2 + slippage.
bt_fill_price(close, direction, slippage) ==
    IF direction = "buy" THEN close + SPREAD_HALF + slippage
    ELSE close - SPREAD_HALF + slippage

\* risk_per_lot of enter_trade, in money units per lot.
bt_risk_per_lot(distance, sym) ==
    IF sym = "metal" THEN distance * METAL_POINT ELSE distance

\* risk_amount = equity * (risk_percent / 100.0)
risk_amount_of(equity, risk_permille) == QMul(Money(equity), Q(risk_permille, 1000))

\* max(lo, min(hi, lots))
clamp_lots(lots, lo, hi) == Max(lo, Min(hi, lots))

\* Mutant: the lots are rounded but not clamped.
bt_lots_unclamped(balance, risk_per_lot) ==
    QRoundScaled(QDiv(risk_amount_of(balance, RISK_PERMILLE), Money(risk_per_lot)), LOT_SCALE)

\* lots = clamp(round(risk_amount / risk_per_lot, 2)) of enter_trade, for a
\* positive risk_per_lot.
bt_lots(balance, risk_per_lot) ==
    clamp_lots(
        QRoundScaled(QDiv(risk_amount_of(balance, RISK_PERMILLE), Money(risk_per_lot)), LOT_SCALE),
        MIN_LOT, MAX_LOT)

\* enter_trade: the position after the call (unchanged when risk_per_lot <= 0).
enter_trade(pos, balance, direction, bar, slippage, sym) ==
    LET sltp == calculate_sl_tp(bar.close, bar.ATR, direction)
        fill_price == bt_fill_price(bar.close, direction, slippage)
        distance == Abs(fill_price - sltp[1])
        risk_per_lot == bt_risk_per_lot(distance, sym)
        lots == bt_lots(balance, risk_per_lot)
    IN  IF risk_per_lot <= 0 THEN pos
        ELSE [open |-> TRUE,
              entry_time |-> bar.time,
              direction |-> direction,
              entry_price |-> fill_price,
              sl_price |-> sltp[1],
              tp_price |-> sltp[2],
              lots |-> lots,
              commission |-> COMMISSION_PER_LOT * lots,
              entry_index |-> bar.index]

\* Mutant: a tie at or above the minimum is taken as a buy.
bt_entry_direction_ties(buy, sell) ==
    IF buy >= MIN_CONFIRMATIONS /\ buy >= sell THEN "buy"
    ELSE IF sell >= MIN_CONFIRMATIONS /\ sell > buy THEN "sell"
    ELSE "none"

\* The direction check_entry_conditions enters, or "none".
bt_entry_direction(buy, sell) ==
    IF buy >= MIN_CONFIRMATIONS /\ buy > sell THEN "buy"
    ELSE IF sell >= MIN_CONFIRMATIONS /\ sell > buy THEN "sell"
    ELSE "none"

\* check_entry_conditions: the position after the call.
check_entry_conditions(pos, balance, bar, conf, slippage, sym) ==
    LET direction == bt_entry_direction(conf[1], conf[2])
    IN  IF direction = "none" THEN pos
        ELSE enter_trade(pos, balance, direction, bar, slippage, sym)

\* Mutant: the time rule is tested before the hard stop and target.
bt_check_exit_conditions_time_first(pos, bar) ==
    IF ~pos.open THEN "none"
    ELSE IF bar.time - pos.entry_time >= MAX_TRADE_HOURS THEN "time"
    ELSE IF pos.direction = "buy" /\ bar.close <= pos.sl_price THEN "sl"
    ELSE IF pos.direction = "buy" /\ bar.close >= pos.tp_price THEN "tp"
    ELSE IF pos.direction = "sell" /\ bar.close >= pos.sl_price THEN "sl"
    ELSE IF pos.direction = "sell" /\ bar.close <= pos.tp_price THEN "tp"
    ELSE "none"

\* check_exit_conditions: "sl", "tp", "time" or "none".
bt_check_exit_conditions(pos, bar) ==
    IF ~pos.open THEN "none"
    ELSE IF pos.direction = "buy" /\ bar.close <= pos.sl_price THEN "sl"
    ELSE IF pos.direction = "buy" /\ bar.close >= pos.tp_price THEN "tp"
    ELSE IF pos.direction = "sell" /\ bar.close >= pos.sl_price THEN "sl"
    ELSE IF pos.direction = "sell" /\ bar.close <= pos.tp_price THEN "tp"
    ELSE IF bar.time - pos.entry_time >= MAX_TRADE_HOURS THEN "time"
    ELSE "none"

\* Mutant: the commission is not subtracted.
bt_pnl_gross(pos, exit_price) ==
    IF pos.direction = "buy"
    THEN (exit_price - pos.entry_price) * pos.lots * (VALUE_PER_UNIT \div LOT_SCALE)
    ELSE (pos.entry_price - exit_price) * pos.lots * (VALUE_PER_UNIT \div LOT_SCALE)

\* Mutant: the price difference is taken entry minus exit for a buy and
\* exit minus entry for a sell.
bt_pnl_reversed(pos, exit_price) ==
    (IF pos.direction = "buy"
     THEN (pos.entry_price - exit_price) * pos.lots * (VALUE_PER_UNIT \div LOT_SCALE)
     ELSE (exit_price - pos.entry_price) * pos.lots * (VALUE_PER_UNIT \div LOT_SCALE))
    - pos.commission

\* The pnl of exit_trade, net of the position's commission.
bt_pnl(pos, exit_price) ==
    (IF pos.direction = "buy"
     THEN (exit_price - pos.entry_price) * pos.lots * (VALUE_PER_UNIT \div LOT_SCALE)
     ELSE (pos.entry_price - exit_price) * pos.lots * (VALUE_PER_UNIT \div LOT_SCALE))
    - pos.commission

\* Mutant: the trade is recorded but self.position is not cleared.
exit_trade_keeps_position(pos, balance, log, bar, exit_reason) ==
    LET pnl == bt_pnl(pos, bar.close)
    IN  [position |-> pos,
         balance |-> balance + pnl,
         trades |-> Append(log, [entry_time |-> pos.entry_time,
                                 exit_time |-> bar.time,
                                 direction |-> pos.direction,
                                 entry_price |-> pos.entry_price,
                                 exit_price |-> bar.close,
                                 lots |-> pos.lots,
                                 pnl |-> pnl,
                                 commission |-> pos.commission,
                                 exit_reason |-> exit_reason])]

\* Mutant: the trade's exit_time is the time of the entry bar.
exit_trade_at_entry_time(pos, balance, log, bar, exit_reason) ==
    LET pnl == bt_pnl(pos, bar.close)
    IN  [position |-> NoPosition,
         balance |-> balance + pnl,
         trades |-> Append(log, [entry_time |-> pos.entry_time,
                                 exit_time |-> pos.entry_time,
                                 direction |-> pos.direction,
                                 entry_price |-> pos.entry_price,
                                 exit_price |-> bar.close,
                                 lots |-> pos.lots,
                                 pnl |-> pnl,
                                 commission |-> pos.commission,
                                 exit_reason |-> exit_reason])]

\* exit_trade: the engine's position, balance and trade log after the call.
exit_trade(pos, balance, log, bar, exit_reason) ==
    LET pnl == bt_pnl(pos, bar.close)
    IN  [position |-> NoPosition,
         balance |-> balance + pnl,
         trades |-> Append(log, [entry_time |-> pos.entry_time,
                                 exit_time |-> bar.time,
                                 direction |-> pos.direction,
                                 entry_price |-> pos.entry_price,
                                 exit_price |-> bar.close,
                                 lots |-> pos.lots,
                                 pnl |-> pnl,
                                 commission |-> pos.commission,
                                 exit_reason |-> exit_reason])]

\* Mutant: an open position is marked to market.
update_equity_curve_mark_to_market(curve, bar, pos, balance) ==
    Append(curve, [timestamp |-> bar.time,
                   equity |-> balance + (IF pos.open THEN bt_pnl(pos, bar.close) ELSE 0)])

\* update_equity_curve: one point per bar, at the realized balance.
update_equity_curve(curve, bar, pos, balance) ==
    Append(curve, [timestamp |-> bar.time, equity |-> balance])

\* Mutant: entries are evaluated on every bar.
bt_entry_guard_always(pos) == TRUE

\* "if not self.position" before check_entry_conditions in run_backtest.
bt_entry_guard(pos) == ~pos.open

\* x < y for two rationals.
QLess(x, y) == x.n * y.d < y.n * x.d

\* [x['equity'] for x in self.equity_curve]
Equities(curve) == [k \in 1 .. Len(curve) |-> curve[k].equity]

\* drawdown / peak * 100, for a positive peak.
drawdown_pct_of(drawdown, peak) == QMul(Q(drawdown, peak), Q(PERCENT, 1))

\* The loop of calculate_drawdown from sample k on: the percentage is taken
\* over together with a new greatest absolute drawdown.
RECURSIVE drawdown_scan(_, _, _)
drawdown_scan(equities, k, acc) ==
    IF k > Len(equities) THEN acc
    ELSE LET equity == equities[k]
             peak == IF equity > acc.peak THEN equity ELSE acc.peak
             drawdown == peak - equity
         IN  drawdown_scan(equities, k + 1,
                 IF drawdown > acc.max_drawdown
                 THEN [peak |-> peak, max_drawdown |-> drawdown,
                       max_drawdown_pct |-> drawdown_pct_of(drawdown, peak)]
                 ELSE [acc EXCEPT !.peak = peak])

\* BacktestEngine.calculate_drawdown, on a curve that starts at a positive
\* balance.
calculate_drawdown(equities) ==
    LET r == drawdown_scan(equities, 1, [peak |-> equities[1], max_drawdown |-> 0,
                                         max_drawdown_pct |-> Q(0, 1)])
    IN  [max_drawdown |-> r.max_drawdown, max_drawdown_pct |-> r.max_drawdown_pct]

RECURSIVE SumAbsPnl(_)
SumAbsPnl(ts) == IF ts = <<>> THEN 0 ELSE Abs(ts[1].pnl) + SumAbsPnl(Tail(ts))

\* [t for t in self.trades if t['pnl'] > 0]
winning_trades(log) == SelectSeq(log, LAMBDA t : t.pnl > 0)

\* [t for t in self.trades if t['pnl'] <= 0]
losing_trades(log) == SelectSeq(log, LAMBDA t : t.pnl <= 0)

\* np.mean of a list of trades' values, 0 for an empty list.
mean_or_zero(total, count) == IF count > 0 THEN Q(total, count) ELSE Q(0, 1)

\* A float that is a number, float('inf') or nan.
Finite(x) == [kind |-> "finite", n |-> x.n, d |-> x.d]
Infinity == [kind |-> "inf", n |-> 0, d |-> 1]
NaN == [kind |-> "nan", n |-> 0, d |-> 1]

\* Mutant: without losing trades the profit factor is reported as 0.
profit_factor_clamped(log) ==
    LET winning == winning_trades(log)
        losing == losing_trades(log)
        avg_win == mean_or_zero(SumPnl(winning), Len(winning))
        avg_loss == mean_or_zero(SumAbsPnl(losing), Len(losing))
        gains == QMul(avg_win, Q(Len(winning), 1))
        losses == QMul(avg_loss, Q(Len(losing), 1))
    IN  IF losing = <<>> \/ losses.n = 0 THEN Finite(Q(0, 1))
        ELSE Finite(QDiv([n |-> Abs(gains.n), d |-> gains.d], losses))

\* abs(avg_win * len(winning_trades) / (avg_loss * len(losing_trades))) if
\* losing_trades else float('inf').  The averages are numpy floats, so a
\* division by an average loss of 0 gives inf, or nan for 0 / 0.
profit_factor(log) ==
    LET winning == winning_trades(log)
        losing == losing_trades(log)
        avg_win == mean_or_zero(SumPnl(winning), Len(winning))
        avg_loss == mean_or_zero(SumAbsPnl(losing), Len(losing))
        gains == QMul(avg_win, Q(Len(winning), 1))
        losses == QMul(avg_loss, Q(Len(losing), 1))
    IN  IF losing = <<>> THEN Infinity
        ELSE IF losses.n = 0 THEN (IF gains.n = 0 THEN NaN ELSE Infinity)
        ELSE Finite(QDiv([n |-> Abs(gains.n), d |-> gains.d], losses))

\* generate_report, reduced to the fields the claims read.
generate_report(balance, log, curve) ==
    IF log = <<>> THEN [error |-> TRUE]
    ELSE [error |-> FALSE,
          final_balance |-> balance,
          total_pnl |-> SumPnl(log),
          total_trades |-> Len(log),
          winning_trades |-> Len(winning_trades(log)),
          losing_trades |-> Len(losing_trades(log)),
          profit_factor |-> profit_factor(log),
          max_drawdown |-> calculate_drawdown(Equities(curve)).max_drawdown,
          max_drawdown_pct |-> calculate_drawdown(Equities(curve)).max_drawdown_pct]

NoSize == [done |-> FALSE, lots |-> 0, sized |-> FALSE]

NoTick == [ok |-> FALSE, last |-> 0, ask |-> 0, bid |-> 0]

NoFrame == [ATR |-> 0, avgATR |-> 0, RSI |-> 0, rows |-> 0]

\* The record of a live cycle: how far it got ("disconnected", "news",
\* "risk", "closed", "spread", "nodata" or "full"), what check_risk_limits
\* saw and answered, and what the exit and the entry step saw and did;
\* exitDone and entryDone are the venue's TRADE_RETCODE_DONE to the closing
\* and to the entry order sent.
NoLiveHist == [stage |-> "none",
               accountOk |-> FALSE, equity |-> 0, start |-> 0, peak |-> 0,
               count |-> 0, riskOk |-> FALSE,
               posBefore |-> NoPosition, tick |-> NoTick, tick2ok |-> FALSE,
               df |-> NoFrame, time |-> 0,
               exitReason |-> "none", exitOrders |-> 0, exitDone |-> FALSE,
               recorded |-> 0,
               entryEvaluated |-> FALSE, conf |-> <<0, 0>>, entryOrders |-> 0,
               entryDone |-> FALSE,
               entrySide |-> "none", posAfter |-> NoPosition]

NoHist == [index |-> -1, close |-> 0, conf |-> <<0, 0>>, posBefore |-> NoPosition,
           exitSignal |-> "none", posAfterExit |-> NoPosition,
           entryEvaluated |-> FALSE, opened |-> 0, closed |-> 0]

\* No position under trailing-stop evaluation.
NoTrail == [position |-> NoPosition, calls |-> 0, before |-> 0, returned |-> 0,
            last |-> 0]

\* No position under partial profit taking.
NoPartial == [calls |-> 0]

\* No optimizer.
NoOptimizer == [pc |-> "none"]

\* No walk-forward call.
NoWalk == [pc |-> "none"]

\* No main loop.
NoLoop == [pc |-> "none"]

\* No pair of runs.
NoPair == [pc |-> "none"]

\* No backtest of a flat series.
NoFlat == [pc |-> "none"]

\* No performance tracker.
NoTracker == [pc |-> "none"]

\* No indicator call.
NoIndicators == [pc |-> "none"]

\* No data cache.
NoCache == [pc |-> "none"]

\* No confirmation call.
NoConfirm == [pc |-> "none"]

\* No on-balance volume call.
NoObv == [pc |-> "none"]

\* No news adjustment.
NoNews == [pc |-> "none"]

\* No connection program.
NoConnect == [pc |-> "none"]

\* Series shorter than the warm-up: one bar, and one bar short of it.
ShortBars == {1, WARMUP - 1}

\* Mutant: the main loop starts at the first bar of the series.
bar_range_from_first(n) == [start |-> 0, stop |-> n]

\* range(100, len(data)): the bars the main loop of run_backtest visits.
bar_range(n) == [start |-> WARMUP, stop |-> n]

\* run_backtest up to the loop: the reset of the engine's state.
InitBacktest ==
    /\ mode = "backtest"
    /\ pc = "loop"
    /\ nBars \in ShortBars \cup (WARMUP .. (WARMUP + MaxBars))
    /\ i = bar_range(nBars).start
    /\ position = NoPosition
    /\ current_balance = INITIAL_BALANCE
    /\ trades = <<>>
    /\ equity_curve = <<[timestamp |-> TimeOf(0), equity |-> INITIAL_BALANCE]>>
    /\ report = [error |-> FALSE, pending |-> TRUE]
    /\ hist = NoHist
    \* the other programs do not run
    /\ conn = NoConnect
    /\ nw = NoNews
    /\ obv = NoObv
    /\ cf = NoConfirm
    /\ cache = NoCache
    /\ ind = NoIndicators
    /\ pt = NoTracker
    /\ flat = NoFlat
    /\ pair = NoPair
    /\ fleet = <<>>
    /\ loop = NoLoop
    /\ szIn = [used |-> FALSE]
    /\ szOut = [bot |-> NoSize, rm |-> NoSize, bt |-> NoSize]
    /\ open_positions = NoPosition
    /\ equity_peak = 0
    /\ daily_equity_start = 0
    /\ tracker = <<>>
    /\ now = 0
    /\ cycles = 0
    /\ lhist = NoLiveHist
    /\ news_adjusts = FALSE
    /\ tsl = NoTrail
    /\ ppt = NoPartial
    /\ opt = NoOptimizer
    /\ wf = NoWalk

\* One iteration of the main loop of run_backtest, on bar i.
ProcessBar ==
    /\ mode = "backtest"
    /\ pc = "loop"
    /\ i < bar_range(nBars).stop
    /\ \E close \in Closes, atr \in Atrs, conf \in ConfPairs, slippage \in Slips :
         LET bar == [index |-> i, time |-> TimeOf(i), close |-> close, ATR |-> atr]
             exit_signal == IF position.open
                            THEN bt_check_exit_conditions(position, bar)
                            ELSE "none"
             cur == [position |-> position, balance |-> current_balance, trades |-> trades]
             afterExit == IF exit_signal # "none"
                          THEN exit_trade(position, current_balance, trades, bar, exit_signal)
                          ELSE cur
             evaluate == bt_entry_guard(afterExit.position)
             newPos == IF evaluate
                       THEN check_entry_conditions(afterExit.position, afterExit.balance,
                                                   bar, conf, slippage, BT_SYMBOL)
                       ELSE afterExit.position
             created == newPos.open /\ newPos.entry_index = i
         IN  /\ position' = newPos
             /\ current_balance' = afterExit.balance
             /\ trades' = afterExit.trades
             /\ equity_curve' = update_equity_curve(equity_curve, bar, newPos, afterExit.balance)
             /\ hist' = [index |-> i, close |-> close,
                         conf |-> IF evaluate THEN conf ELSE <<0, 0>>,
                         posBefore |-> position,
                         exitSignal |-> exit_signal,
                         posAfterExit |-> afterExit.position,
                         entryEvaluated |-> evaluate,
                         opened |-> hist.opened + (IF created THEN 1 ELSE 0),
                         closed |-> hist.closed + (IF exit_signal # "none" THEN 1 ELSE 0)]
    /\ i' = i + 1
    /\ UNCHANGED <<mode, connVars, newsVars, obvVars, cfVars, cacheVars, indVars, ptVars, flatVars, pairVars, loopVars, pc, nBars, report, szVars, liveVars, exVars, optVars>>

\* Mutant: the end of the run closes a still-open position at the last close.
FinishBacktestClosing ==
    /\ mode = "backtest"
    /\ pc = "loop"
    /\ i >= nBars
    /\ pc' = "done"
    /\ LET bar == [index |-> hist.index, time |-> TimeOf(hist.index), close |-> hist.close]
           after == IF position.open
                    THEN exit_trade(position, current_balance, trades, bar, "end")
                    ELSE [position |-> position, balance |-> current_balance, trades |-> trades]
       IN  /\ position' = after.position
           /\ current_balance' = after.balance
           /\ trades' = after.trades
           /\ report' = generate_report(after.balance, after.trades, equity_curve)
    /\ UNCHANGED <<mode, connVars, newsVars, obvVars, cfVars, cacheVars, indVars, ptVars, flatVars, pairVars, loopVars, nBars, i, equity_curve, hist, szVars, liveVars, exVars, optVars>>

\* The end of run_backtest: generate_report after the last bar.
FinishBacktest ==
    /\ mode = "backtest"
    /\ pc = "loop"
    /\ i >= bar_range(nBars).stop
    /\ pc' = "done"
    /\ report' = generate_report(current_balance, trades, equity_curve)
    /\ UNCHANGED <<mode, connVars, newsVars, obvVars, cfVars, cacheVars, indVars, ptVars, flatVars, pairVars, loopVars, nBars, i, position, current_balance, trades, equity_curve, hist,
                   szVars, liveVars, exVars, optVars>>

NextBacktest == ProcessBar \/ FinishBacktest

(***************************************************************************)
(* Position sizing: MultiInstrumentBot.calculate_position_size,            *)
(* RiskManager.calculate_position_size and the sizing part of              *)
(* BacktestEngine.enter_trade, as functions of their inputs.               *)
(*   account: [ok, equity]      mt5.account_info()                         *)
(*   tick:    [ok, ask, bid]    mt5.symbol_info_tick(symbol)               *)
(*   info:    [ok, trade_contract_size]   mt5.symbol_info(symbol)          *)
(* A lot size is in hundredths; risk_permille is RISK_PERCENT * 10.        *)
(***************************************************************************)

\* Mutant: the upper clamp is missing.
bot_lots_from_risk_unclamped(risk_amount, risk_per_lot) ==
    LET estimated_lots == QDiv(risk_amount, risk_per_lot)
        commission == QMul(Money(COMMISSION_PER_LOT * LOT_SCALE), estimated_lots)
        risk2 == QMax0(QSub(risk_amount, commission))
        lots == QRoundScaled(QDiv(risk2, risk_per_lot), LOT_SCALE)
    IN  Max(MIN_LOT, lots)

\* The bot's lots for a positive risk_per_lot: the risk amount is reduced
\* once by the estimated commission, the quotient rounded and clamped.
bot_lots_from_risk(risk_amount, risk_per_lot) ==
    LET estimated_lots == QDiv(risk_amount, risk_per_lot)
        commission == QMul(Money(COMMISSION_PER_LOT * LOT_SCALE), estimated_lots)
        risk2 == QMax0(QSub(risk_amount, commission))
        lots == QRoundScaled(QDiv(risk2, risk_per_lot), LOT_SCALE)
    IN  clamp_lots(lots, MIN_LOT, MAX_LOT)

\* MultiInstrumentBot.calculate_position_size
bot_calculate_position_size(account, tick, info, stop_loss_price, side, risk_permille, sym) ==
    IF ~account.ok THEN MIN_LOT
    ELSE IF ~tick.ok THEN MIN_LOT
    ELSE LET risk_amount == risk_amount_of(account.equity, risk_permille)
             price == IF side = "buy" THEN tick.ask ELSE tick.bid
             distance == Abs(price - stop_loss_price)
         IN  IF distance <= 0 THEN MIN_LOT
             ELSE IF sym # "metal" /\ ~info.ok THEN MIN_LOT   \* AttributeError, caught
             ELSE LET risk_per_lot == IF sym = "metal" THEN distance * METAL_POINT
                                      ELSE distance * info.trade_contract_size
                  IN  IF risk_per_lot <= 0 THEN MIN_LOT
                      ELSE bot_lots_from_risk(risk_amount, Money(risk_per_lot))

\* RiskManager.calculate_position_size
rm_calculate_position_size(account, tick, info, stop_loss_price, side, risk_permille, sym) ==
    IF ~account.ok THEN RM_MIN_LOT
    ELSE IF ~tick.ok THEN RM_MIN_LOT
    ELSE LET risk_amount == risk_amount_of(account.equity, risk_permille)
             price == IF side = "buy" THEN tick.ask ELSE tick.bid
             distance == Abs(price - stop_loss_price)
         IN  IF distance <= 0 THEN RM_MIN_LOT
             ELSE IF ~info.ok THEN RM_MIN_LOT                  \* AttributeError, caught
             ELSE LET risk_per_lot == IF sym = "metal" THEN distance * METAL_POINT
                                      ELSE distance * info.trade_contract_size
                  IN  IF risk_per_lot <= 0 THEN RM_MIN_LOT
                      ELSE clamp_lots(
                             QRoundScaled(QDiv(risk_amount, Money(risk_per_lot)), LOT_SCALE),
                             RM_MIN_LOT, RM_MAX_LOT)

\* The sizing of BacktestEngine.enter_trade: no size at all (the entry is
\* abandoned) when risk_per_lot <= 0.
bt_position_size(balance, fill_price, sl_price, sym) ==
    LET risk_per_lot == bt_risk_per_lot(Abs(fill_price - sl_price), sym)
    IN  IF risk_per_lot <= 0 THEN [sized |-> FALSE, lots |-> 0]
        ELSE [sized |-> TRUE, lots |-> bt_lots(balance, risk_per_lot)]

SizingAccounts ==
    {[ok |-> FALSE, equity |-> 0]}
    \cup {[ok |-> TRUE, equity |-> e] :
            e \in {0 - INITIAL_BALANCE \div 10, 0, INITIAL_BALANCE, 10 * INITIAL_BALANCE}}
SizingTicks ==
    {[ok |-> FALSE, ask |-> 0, bid |-> 0],
     [ok |-> TRUE, ask |-> BasePrice + SPREAD_HALF, bid |-> BasePrice - SPREAD_HALF]}
SizingInfos ==
    {[ok |-> FALSE, trade_contract_size |-> 0]}
    \cup {[ok |-> TRUE, trade_contract_size |-> c] : c \in {0, 1, 1000}}
\* Stops at the bid and at the ask (distance 0 or two ticks) and 0.15 away.
SizingStops == {BasePrice - SPREAD_HALF, BasePrice + SPREAD_HALF,
                BasePrice - 1500, BasePrice + 1500}
SizingRisk == {RISK_PERMILLE, 5}
SizingSymbols == {"metal", "oil", "other"}

InitSizing ==
    /\ mode = "sizing"
    /\ szIn \in [account : SizingAccounts, tick : SizingTicks, info : SizingInfos,
                 stop : SizingStops, side : {"buy", "sell"}, risk : SizingRisk,
                 sym : SizingSymbols, used : {TRUE}]
    /\ szOut = [bot |-> NoSize, rm |-> NoSize, bt |-> NoSize]
    \* the other programs do not run
    /\ conn = NoConnect
    /\ nw = NoNews
    /\ obv = NoObv
    /\ cf = NoConfirm
    /\ cache = NoCache
    /\ ind = NoIndicators
    /\ pt = NoTracker
    /\ flat = NoFlat
    /\ pair = NoPair
    /\ fleet = <<>>
    /\ loop = NoLoop
    /\ pc = "idle"
    /\ nBars = 0
    /\ i = 0
    /\ position = NoPosition
    /\ current_balance = 0
    /\ trades = <<>>
    /\ equity_curve = <<>>
    /\ report = [error |-> FALSE, pending |-> TRUE]
    /\ hist = NoHist
    /\ open_positions = NoPosition
    /\ equity_peak = 0
    /\ daily_equity_start = 0
    /\ tracker = <<>>
    /\ now = 0
    /\ cycles = 0
    /\ lhist = NoLiveHist
    /\ news_adjusts = FALSE
    /\ tsl = NoTrail
    /\ ppt = NoPartial
    /\ opt = NoOptimizer
    /\ wf = NoWalk

\* A call of MultiInstrumentBot.calculate_position_size
SizeBot ==
    /\ mode = "sizing"
    /\ ~szOut.bot.done
    /\ szOut' = [szOut EXCEPT !.bot =
                   [done |-> TRUE, sized |-> TRUE,
                    lots |-> bot_calculate_position_size(szIn.account, szIn.tick, szIn.info,
                                                         szIn.stop, szIn.side, szIn.risk, szIn.sym)]]
    /\ UNCHANGED <<mode, connVars, newsVars, obvVars, cfVars, cacheVars, indVars, ptVars, flatVars, pairVars, loopVars, szIn, btVars, liveVars, exVars, optVars>>

\* A call of RiskManager.calculate_position_size
SizeRiskManager ==
    /\ mode = "sizing"
    /\ ~szOut.rm.done
    /\ szOut' = [szOut EXCEPT !.rm =
                   [done |-> TRUE, sized |-> TRUE,
                    lots |-> rm_calculate_position_size(szIn.account, szIn.tick, szIn.info,
                                                        szIn.stop, szIn.side, szIn.risk, szIn.sym)]]
    /\ UNCHANGED <<mode, connVars, newsVars, obvVars, cfVars, cacheVars, indVars, ptVars, flatVars, pairVars, loopVars, szIn, btVars, liveVars, exVars, optVars>>

\* The sizing of enter_trade on a balance, a fill price and a stop; the
\* engine has no account or tick to miss.
SizeEngine ==
    /\ mode = "sizing"
    /\ ~szOut.bt.done
    /\ szIn.account.ok /\ szIn.tick.ok /\ szIn.risk = RISK_PERMILLE
    /\ LET fill == IF szIn.side = "buy" THEN szIn.tick.ask ELSE szIn.tick.bid
           r == bt_position_size(szIn.account.equity, fill, szIn.stop,
                                 IF szIn.sym = "metal" THEN "metal" ELSE "other")
       IN  szOut' = [szOut EXCEPT !.bt = [done |-> TRUE, sized |-> r.sized, lots |-> r.lots]]
    /\ UNCHANGED <<mode, connVars, newsVars, obvVars, cfVars, cacheVars, indVars, ptVars, flatVars, pairVars, loopVars, szIn, btVars, liveVars, exVars, optVars>>

NextSizing == SizeBot \/ SizeRiskManager \/ SizeEngine

(***************************************************************************)
(* MultiInstrumentBot: one call of run_single_cycle.                       *)
(*   account: [ok, equity]          mt5.account_info()                     *)
(*   tick:    [ok, last, ask, bid]  mt5.symbol_info_tick(symbol)           *)
(*   df:      [ATR, avgATR, RSI, rows]  the last row of fetch_data(), its  *)
(*            20-bar ATR mean and the frame's length                       *)
(* The bot trades the fixture's symbol, a metal.                           *)
(***************************************************************************)

LivePrices == {BasePrice - 1500, BasePrice, BasePrice + 2250}
LiveTicks ==
    {NoTick}
    \cup {[ok |-> TRUE, last |-> q, ask |-> q + SPREAD_HALF, bid |-> q - SPREAD_HALF] :
            q \in LivePrices}
\* Equities at 98, 99 and 110 percent of the initial balance.
LiveAccounts ==
    {[ok |-> FALSE, equity |-> 0]}
    \cup {[ok |-> TRUE, equity |-> (INITIAL_BALANCE \div PERCENT) * pct] :
            pct \in {98, 99, 110}}
\* account.equity at initialize(): an unfunded or a funded account.
InitEquities == {0, INITIAL_BALANCE}
\* len(mt5.positions_get(symbol))
PositionCounts == {0, 1}
\* An oversold frame with a volatility expansion, a calm overbought frame and
\* a calm oversold frame.
LiveFrames ==
    {[ATR |-> 3000, avgATR |-> 1000, RSI |-> 20, rows |-> 100],
     [ATR |-> 1000, avgATR |-> 1000, RSI |-> 80, rows |-> 100],
     [ATR |-> 1000, avgATR |-> 1000, RSI |-> 20, rows |-> 100]}
\* Time between two cycles in which something is observed.
CycleGaps == {CycleHours, 2 * CycleHours}
LIVE_INFO == [ok |-> TRUE, trade_contract_size |-> 100]

\* num / den * 100 <= bound, for den # 0
PctLE(num, den, bound) ==
    IF den > 0 THEN num * PERCENT <= bound * den ELSE num * PERCENT >= bound * den

\* num / den * 100 >= bound, for den # 0
PctGE(num, den, bound) ==
    IF den > 0 THEN num * PERCENT >= bound * den ELSE num * PERCENT <= bound * den

\* Mutant: the drawdown limit is not tested.
bot_check_risk_limits_no_drawdown(account, peak, start, current_positions) ==
    IF ~account.ok THEN [ok |-> FALSE, equity_peak |-> peak]
    ELSE LET equity == account.equity
             peak2 == Max(peak, equity)
             blocked == [ok |-> FALSE, equity_peak |-> peak2]
         IN  IF start = 0 THEN blocked
             ELSE IF PctLE(equity - start, start, 0 - DAILY_LOSS_LIMIT) THEN blocked
             ELSE IF peak2 = 0 THEN blocked
             ELSE IF current_positions >= MAX_OPEN_POSITIONS THEN blocked
             ELSE [ok |-> TRUE, equity_peak |-> peak2]

\* check_risk_limits: its result and self.equity_peak after the call.  A
\* zero daily_equity_start or equity_peak raises ZeroDivisionError, which
\* the method catches and answers with False.
bot_check_risk_limits(account, peak, start, current_positions) ==
    IF ~account.ok THEN [ok |-> FALSE, equity_peak |-> peak]
    ELSE LET equity == account.equity
             peak2 == Max(peak, equity)
             blocked == [ok |-> FALSE, equity_peak |-> peak2]
         IN  IF start = 0 THEN blocked
             ELSE IF PctLE(equity - start, start, 0 - DAILY_LOSS_LIMIT) THEN blocked
             ELSE IF peak2 = 0 THEN blocked
             ELSE IF PctGE(peak2 - equity, peak2, MAX_DRAWDOWN) THEN blocked
             ELSE IF current_positions >= MAX_OPEN_POSITIONS THEN blocked
             ELSE [ok |-> TRUE, equity_peak |-> peak2]

\* check_sl_tp: "sl", "tp" or "none"
bot_check_sl_tp(pos, current_price) ==
    IF pos.direction = "buy"
    THEN IF current_price <= pos.sl_price THEN "sl"
         ELSE IF current_price >= pos.tp_price THEN "tp"
         ELSE "none"
    ELSE IF current_price >= pos.sl_price THEN "sl"
         ELSE IF current_price <= pos.tp_price THEN "tp"
         ELSE "none"

\* Mutant: the new stop is returned without comparing it to the current one.
trailing_stop_atr_unratcheted(current_price, pos, atr_value) ==
    IF pos.direction = "buy"
    THEN current_price - (TRAIL_MULT_NUM * atr_value) \div HALF_DEN
    ELSE current_price + (TRAIL_MULT_NUM * atr_value) \div HALF_DEN

\* ExitStrategies.trailing_stop_atr
trailing_stop_atr(current_price, pos, atr_value) ==
    IF pos.direction = "buy"
    THEN Max(current_price - (TRAIL_MULT_NUM * atr_value) \div HALF_DEN, pos.sl_price)
    ELSE Min(current_price + (TRAIL_MULT_NUM * atr_value) \div HALF_DEN, pos.sl_price)

\* ExitStrategies.time_based_exit
time_based_exit(pos, current_time, max_hours) ==
    current_time - pos.entry_time >= max_hours

\* ExitStrategies.volatility_expansion_exit
volatility_expansion_exit(df) ==
    IF df.rows < VOL_MIN_ROWS THEN FALSE
    ELSE df.ATR > df.avgATR * VOL_THRESHOLD

\* ExitStrategies.rsi_extreme_exit
rsi_extreme_exit(df, pos) ==
    IF df.rows < RSI_PERIOD THEN FALSE
    ELSE IF pos.direction = "buy" THEN df.RSI > RSI_EXIT_LEVEL
    ELSE df.RSI < RSI_FULL - RSI_EXIT_LEVEL

\* Mutant: the time rule is tested after the volatility and RSI rules.
bot_check_advanced_exits_time_last(df, pos, current_time, tick) ==
    IF ~tick.ok THEN [reason |-> "none", position |-> pos]
    ELSE LET new_sl == trailing_stop_atr(tick.last, pos, df.ATR)
             pos2 == IF \/ pos.direction = "buy" /\ new_sl > pos.sl_price
                        \/ pos.direction = "sell" /\ new_sl < pos.sl_price
                     THEN [pos EXCEPT !.sl_price = new_sl]
                     ELSE pos
         IN  [position |-> pos2,
              reason |-> IF volatility_expansion_exit(df) THEN "volatility"
                         ELSE IF rsi_extreme_exit(df, pos2) THEN "rsi_extreme"
                         ELSE IF time_based_exit(pos2, current_time, MAX_TRADE_HOURS)
                              THEN "time"
                         ELSE "none"]

\* check_advanced_exits: the exit reason or "none", and the position with
\* its trailed stop.  tick is the method's own read of the price.
bot_check_advanced_exits(df, pos, current_time, tick) ==
    IF ~tick.ok THEN [reason |-> "none", position |-> pos]
    ELSE LET new_sl == trailing_stop_atr(tick.last, pos, df.ATR)
             pos2 == IF \/ pos.direction = "buy" /\ new_sl > pos.sl_price
                        \/ pos.direction = "sell" /\ new_sl < pos.sl_price
                     THEN [pos EXCEPT !.sl_price = new_sl]
                     ELSE pos
         IN  [position |-> pos2,
              reason |-> IF time_based_exit(pos2, current_time, MAX_TRADE_HOURS)
                              THEN "time"
                         ELSE IF volatility_expansion_exit(df) THEN "volatility"
                         ELSE IF rsi_extreme_exit(df, pos2) THEN "rsi_extreme"
                         ELSE "none"]

\* The pnl of exit_position: no commission is subtracted.
bot_pnl(pos, exit_price) ==
    IF pos.direction = "buy"
    THEN (exit_price - pos.entry_price) * pos.lots * (VALUE_PER_UNIT \div LOT_SCALE)
    ELSE (pos.entry_price - exit_price) * pos.lots * (VALUE_PER_UNIT \div LOT_SCALE)

\* Mutant: the trade is recorded and the position dropped whatever the
\* venue answers.
exit_position_unconfirmed(pos, log, exit_price, exit_reason, order_done, time) ==
    IF ~pos.open THEN [position |-> pos, tracker |-> log, orders |-> 0]
    ELSE [position |-> NoPosition,
          tracker |-> Append(log, [entry_time |-> pos.entry_time,
                                   exit_time |-> time,
                                   direction |-> pos.direction,
                                   entry_price |-> pos.entry_price,
                                   exit_price |-> exit_price,
                                   lots |-> pos.lots,
                                   pnl |-> bot_pnl(pos, exit_price),
                                   exit_reason |-> exit_reason]),
          orders |-> 1]

\* exit_position: the closing order is sent; the trade is recorded and the
\* position dropped only when the venue answers TRADE_RETCODE_DONE.
exit_position(pos, log, exit_price, exit_reason, order_done, time) ==
    IF ~pos.open THEN [position |-> pos, tracker |-> log, orders |-> 0]
    ELSE IF ~order_done THEN [position |-> pos, tracker |-> log, orders |-> 1]
    ELSE [position |-> NoPosition,
          tracker |-> Append(log, [entry_time |-> pos.entry_time,
                                   exit_time |-> time,
                                   direction |-> pos.direction,
                                   entry_price |-> pos.entry_price,
                                   exit_price |-> exit_price,
                                   lots |-> pos.lots,
                                   pnl |-> bot_pnl(pos, exit_price),
                                   exit_reason |-> exit_reason]),
          orders |-> 1]

\* check_exit_conditions of the bot: position, tracker, the exit reason found
\* ("none" when there is none) and the closing orders sent.  tick is the
\* price read of check_exit_conditions, tick2 that of check_advanced_exits.
bot_check_exit_conditions(pos, log, df, tick, tick2, order_done, current_time) ==
    IF ~pos.open \/ ~tick.ok
    THEN [position |-> pos, tracker |-> log, reason |-> "none", orders |-> 0]
    ELSE LET hard == bot_check_sl_tp(pos, tick.last)
             adv == IF hard = "none"
                    THEN bot_check_advanced_exits(df, pos, current_time, tick2)
                    ELSE [reason |-> "none", position |-> pos]
             exit_reason == IF hard # "none" THEN hard ELSE adv.reason
             out == exit_position(adv.position, log, tick.last, exit_reason,
                                  order_done, current_time)
         IN  IF exit_reason = "none"
             THEN [position |-> adv.position, tracker |-> log,
                   reason |-> "none", orders |-> 0]
             ELSE [position |-> out.position, tracker |-> out.tracker,
                   reason |-> exit_reason, orders |-> out.orders]

\* Mutant: a tie at or above the minimum is taken as a sell.
bot_entry_direction_ties(buy, sell) ==
    IF buy >= MIN_CONFIRMATIONS /\ buy > sell THEN "buy"
    ELSE IF sell >= MIN_CONFIRMATIONS /\ sell >= buy THEN "sell"
    ELSE "none"

\* The direction execute_if_qualified trades, or "none".
bot_entry_direction(buy, sell) ==
    IF buy >= MIN_CONFIRMATIONS /\ buy > sell THEN "buy"
    ELSE IF sell >= MIN_CONFIRMATIONS /\ sell > buy THEN "sell"
    ELSE "none"

\* self.impact_thresholds.get(trading_style, self.impact_thresholds['default'])
impact_threshold(trading_style) ==
    CASE trading_style = "scalping" -> 99990
      [] trading_style = "position" -> 30
      [] OTHER -> 50

\* EconomicCalendar.get_event_impact_score(self, symbol, timestamp) called
\* with the arguments args: both parameters are required, so a call without
\* the timestamp raises TypeError; otherwise the score of the events is
\* returned.
get_event_impact_score(args, score) ==
    IF Len(args) # 2 THEN [raised |-> TRUE, score |-> 0]
    ELSE [raised |-> FALSE, score |-> score]

\* NewsFilter.adjust_risk_parameters: the parameters returned, or the
\* exception of its call self.calendar.get_event_impact_score(symbol).
adjust_risk_parameters(symbol, original_params, trading_style, score) ==
    IF trading_style = "scalping"
    THEN [raised |-> FALSE, params |-> original_params]
    ELSE LET impact == get_event_impact_score(<<symbol>>, score)
             threshold == impact_threshold(trading_style)
         IN  IF impact.raised THEN [raised |-> TRUE, params |-> original_params]
             ELSE IF impact.score > threshold
             THEN [raised |-> FALSE,
                   params |-> [RISK_PERCENT |-> (original_params.RISK_PERCENT * 5) \div 10,
                               SL_ATR_MULTIPLIER |->
                                 (original_params.SL_ATR_MULTIPLIER * 15) \div 10]]
             ELSE IF 2 * impact.score > threshold
             THEN [raised |-> FALSE,
                   params |-> [RISK_PERCENT |-> (original_params.RISK_PERCENT * 8) \div 10,
                               SL_ATR_MULTIPLIER |->
                                 (original_params.SL_ATR_MULTIPLIER * 12) \div 10]]
             ELSE [raised |-> FALSE, params |-> original_params]

\* execute_trade: the position after the call, the entry orders sent and
\* the side of the order ("none" when none was sent).
execute_trade(pos, direction, df, account, tick, order_done, time) ==
    IF ~tick.ok THEN [position |-> pos, orders |-> 0, side |-> "none"]
    ELSE LET sltp == calculate_sl_tp(tick.last, df.ATR, direction)
             lots == bot_calculate_position_size(account, tick, LIVE_INFO, sltp[1],
                                                 direction, RISK_PERMILLE, "metal")
         IN  IF lots <= 0 THEN [position |-> pos, orders |-> 0, side |-> "none"]
             ELSE IF ~order_done THEN [position |-> pos, orders |-> 1, side |-> direction]
             ELSE [position |-> [open |-> TRUE,
                                 direction |-> direction,
                                 entry_price |-> IF direction = "buy" THEN tick.ask
                                                 ELSE tick.bid,
                                 sl_price |-> sltp[1],
                                 tp_price |-> sltp[2],
                                 lots |-> lots,
                                 entry_time |-> time],
                   orders |-> 1,
                   side |-> direction]

\* execute_if_qualified
execute_if_qualified(pos, conf, df, account, tick, order_done, time) ==
    LET direction == bot_entry_direction(conf[1], conf[2])
    IN  IF direction = "none" THEN [position |-> pos, orders |-> 0, side |-> "none"]
        ELSE execute_trade(pos, direction, df, account, tick, order_done, time)

\* The entry step of run_single_cycle.  With a news filter execute_trade
\* first has its parameters adjusted for the bot's style, once a side
\* qualifies and get_current_price has answered; an exception there leaves
\* execute_trade and is caught by run_single_cycle.
bot_entry(adjusts, pos, conf, df, account, tick, order_done, time) ==
    IF /\ adjusts
       /\ bot_entry_direction(conf[1], conf[2]) # "none"
       /\ tick.ok
       /\ adjust_risk_parameters(BT_SYMBOL,
                                 [RISK_PERCENT |-> 10 * RISK_PERMILLE,
                                  SL_ATR_MULTIPLIER |-> (100 * SL_MULT_NUM) \div HALF_DEN],
                                 "position", 0).raised
    THEN [position |-> pos, orders |-> 0, side |-> "none"]
    ELSE execute_if_qualified(pos, conf, df, account, tick, order_done, time)

\* __init__ and initialize(): the bot is built with or without a news
\* filter that adjusts its entries; equity_peak and daily_equity_start are
\* the account's equity; nothing is open.
InitLive ==
    /\ mode = "live"
    /\ open_positions = NoPosition
    /\ \E e \in InitEquities : equity_peak = e /\ daily_equity_start = e
    /\ tracker = <<>>
    /\ now = 0
    /\ cycles = 0
    /\ lhist = NoLiveHist
    /\ news_adjusts \in BOOLEAN
    \* the other programs do not run
    /\ conn = NoConnect
    /\ nw = NoNews
    /\ obv = NoObv
    /\ cf = NoConfirm
    /\ cache = NoCache
    /\ ind = NoIndicators
    /\ pt = NoTracker
    /\ flat = NoFlat
    /\ pair = NoPair
    /\ fleet = <<>>
    /\ loop = NoLoop
    /\ tsl = NoTrail
    /\ ppt = NoPartial
    /\ opt = NoOptimizer
    /\ wf = NoWalk
    /\ pc = "idle"
    /\ nBars = 0
    /\ i = 0
    /\ position = NoPosition
    /\ current_balance = 0
    /\ trades = <<>>
    /\ equity_curve = <<>>
    /\ report = [error |-> FALSE, pending |-> TRUE]
    /\ hist = NoHist
    /\ szIn = [used |-> FALSE]
    /\ szOut = [bot |-> NoSize, rm |-> NoSize, bt |-> NoSize]

\* The state a call of run_single_cycle leaves.
CycleEnds(peak, pos, log, h) ==
    /\ equity_peak' = peak
    /\ open_positions' = pos
    /\ tracker' = log
    /\ lhist' = [h EXCEPT !.posAfter = pos, !.recorded = Len(log) - Len(tracker)]

\* One call of run_single_cycle, with its early returns.  The time since
\* the last cycle matters to a held position only.
RunSingleCycle ==
    /\ mode = "live"
    /\ cycles < MaxCycles
    /\ cycles' = cycles + 1
    /\ \E gap \in IF open_positions.open THEN CycleGaps ELSE {CycleHours},
          pre \in IF news_adjusts THEN {"disconnected", "news", "ok"}
                  ELSE {"disconnected", "ok"} :
         /\ now' = now + gap
         /\ IF pre # "ok"
            THEN CycleEnds(equity_peak, open_positions, tracker,
                           [NoLiveHist EXCEPT !.stage = pre])
            ELSE \E account \in LiveAccounts, count \in PositionCounts :
                 \E risk \in {bot_check_risk_limits(account, equity_peak,
                                                    daily_equity_start, count)} :
              LET h1 == [NoLiveHist EXCEPT !.accountOk = account.ok,
                                           !.equity = account.equity,
                                           !.start = daily_equity_start,
                                           !.peak = risk.equity_peak,
                                           !.count = count,
                                           !.riskOk = risk.ok,
                                           !.posBefore = open_positions]
              IN  IF ~risk.ok
                  THEN CycleEnds(risk.equity_peak, open_positions, tracker,
                                 [h1 EXCEPT !.stage = "risk"])
                  ELSE \E post \in {"closed", "spread", "nodata", "ok"} :
                    IF post # "ok"
                    THEN CycleEnds(risk.equity_peak, open_positions, tracker,
                                   [h1 EXCEPT !.stage = post])
                    ELSE \E df \in LiveFrames, tick \in LiveTicks :
                         \E tick2ok \in IF open_positions.open /\ tick.ok
                                        THEN BOOLEAN ELSE {FALSE},
                            exit_done \in IF open_positions.open /\ tick.ok
                                          THEN BOOLEAN ELSE {FALSE} :
                         \E ex \in {bot_check_exit_conditions(
                                      open_positions, tracker, df, tick,
                                      IF tick2ok THEN tick ELSE NoTick,
                                      exit_done, now + gap)} :
                         \E conf \in IF ex.position.open THEN {<<0, 0>>} ELSE ConfPairs,
                            entry_done \in IF ex.position.open THEN {FALSE} ELSE BOOLEAN :
                         \E en \in {IF ex.position.open
                                    THEN [position |-> ex.position, orders |-> 0,
                                          side |-> "none"]
                                    ELSE bot_entry(
                                           news_adjusts, ex.position, conf, df, account,
                                           tick, entry_done, now + gap)} :
                            CycleEnds(risk.equity_peak, en.position, ex.tracker,
                              [h1 EXCEPT
                                 !.stage = "full",
                                 !.tick = IF open_positions.open THEN tick ELSE NoTick,
                                 !.tick2ok = tick2ok,
                                 !.df = IF open_positions.open /\ tick.ok THEN df ELSE NoFrame,
                                 !.time = now + gap,
                                 !.exitReason = ex.reason,
                                 !.exitOrders = ex.orders,
                                 !.exitDone = (ex.orders > 0 /\ exit_done),
                                 !.recorded = Len(ex.tracker) - Len(tracker),
                                 !.entryEvaluated = ~ex.position.open,
                                 !.conf = conf,
                                 !.entryOrders = en.orders,
                                 !.entryDone = (en.orders > 0 /\ entry_done),
                                 !.entrySide = en.side])
    /\ UNCHANGED <<mode, connVars, newsVars, obvVars, cfVars, cacheVars, indVars, ptVars, flatVars, pairVars, loopVars, daily_equity_start, news_adjusts, btVars, szVars, exVars, optVars>>

NextLive == RunSingleCycle

(***************************************************************************)
(* ExitStrategies.trailing_stop_atr on one position, call after call, with *)
(* the stop update of MultiInstrumentBot.check_advanced_exits between the  *)
(* calls                                                                   *)
(***************************************************************************)

MaxTrailCalls == 3     \* calls of trailing_stop_atr on the position

TrailStops == {BasePrice - 1500, BasePrice + 1500}
TrailAtrs == {0, 1000, 3000}

InitTrailing ==
    /\ mode = "trailing"
    /\ \E d \in {"buy", "sell"}, sl \in TrailStops :
          tsl = [position |-> [open |-> TRUE,
                               direction |-> d,
                               entry_price |-> BasePrice,
                               sl_price |-> sl,
                               tp_price |-> IF d = "buy" THEN BasePrice + 10000
                                            ELSE BasePrice - 10000,
                               lots |-> MIN_LOT,
                               entry_time |-> 0],
                 calls |-> 0, before |-> sl, returned |-> sl, last |-> sl]
    \* the other programs do not run
    /\ conn = NoConnect
    /\ nw = NoNews
    /\ obv = NoObv
    /\ cf = NoConfirm
    /\ cache = NoCache
    /\ ind = NoIndicators
    /\ pt = NoTracker
    /\ flat = NoFlat
    /\ pair = NoPair
    /\ fleet = <<>>
    /\ loop = NoLoop
    /\ pc = "idle"
    /\ nBars = 0
    /\ i = 0
    /\ position = NoPosition
    /\ current_balance = 0
    /\ trades = <<>>
    /\ equity_curve = <<>>
    /\ report = [error |-> FALSE, pending |-> TRUE]
    /\ hist = NoHist
    /\ szIn = [used |-> FALSE]
    /\ szOut = [bot |-> NoSize, rm |-> NoSize, bt |-> NoSize]
    /\ open_positions = NoPosition
    /\ equity_peak = 0
    /\ daily_equity_start = 0
    /\ tracker = <<>>
    /\ now = 0
    /\ cycles = 0
    /\ lhist = NoLiveHist
    /\ news_adjusts = FALSE
    /\ ppt = NoPartial
    /\ opt = NoOptimizer
    /\ wf = NoWalk

\* One call of trailing_stop_atr on a price and an ATR value, and the bot's
\* update of position['sl_price'] with the value returned.  before is the
\* stop the call found, last the value the previous call returned.
TrailingStop ==
    /\ mode = "trailing"
    /\ tsl.calls < MaxTrailCalls
    /\ \E price \in LivePrices, atr \in TrailAtrs :
          LET df == [ATR |-> atr, avgATR |-> atr, RSI |-> RSI_FULL \div HALF_DEN,
                     rows |-> VOL_MIN_ROWS]
              tick == [ok |-> TRUE, last |-> price, ask |-> price + SPREAD_HALF,
                       bid |-> price - SPREAD_HALF]
          IN  tsl' = [position |-> bot_check_advanced_exits(df, tsl.position, 0, tick).position,
                      calls |-> tsl.calls + 1,
                      before |-> tsl.position.sl_price,
                      returned |-> trailing_stop_atr(price, tsl.position, atr),
                      last |-> tsl.returned]
    /\ UNCHANGED <<mode, connVars, newsVars, obvVars, cfVars, cacheVars, indVars, ptVars, flatVars, pairVars, loopVars, btVars, szVars, liveVars, ppt, optVars>>

NextTrailing == TrailingStop

SpecTrailing == InitTrailing /\ [][NextTrailing]_vars

(***************************************************************************)
(* ExitStrategies.partial_profit_taking on one position, call after call   *)
(***************************************************************************)

MaxPartialCalls == 3   \* calls of partial_profit_taking on the position

\* Lists of (level_pct, close_pct) levels, both in percent: the configured
\* PARTIAL_PROFIT_LEVELS, the same thresholds out of order, and a list in
\* which two levels have the same threshold.
PartialLevels ==
    {<<<<1, 30>>, <<2, 30>>, <<3, 40>>>>,
     <<<<2, 30>>, <<1, 30>>>>,
     <<<<1, 30>>, <<1, 40>>, <<2, 30>>>>}

\* Prices 2.5 and 1.5 percent below and 0.5, 1.5 and 3.5 percent above the
\* entry price.
PartialPrices ==
    {BasePrice - 450000, BasePrice - 270000, BasePrice + 90000, BasePrice + 270000,
     BasePrice + 630000}

\* profit_pct >= level_pct, with profit_pct the directional price change in
\* percent of the entry price.
profit_reaches(pos, current_price, level_pct) ==
    IF pos.direction = "buy"
    THEN (current_price - pos.entry_price) * PERCENT >= level_pct * pos.entry_price
    ELSE (pos.entry_price - current_price) * PERCENT >= level_pct * pos.entry_price

\* The loop of partial_profit_taking from level k on: the index of the first
\* level that is reached and whose key taken_<level_pct> is not set, or 0.
RECURSIVE first_untaken_level(_, _, _, _)
first_untaken_level(pos, current_price, levels, k) ==
    IF k > Len(levels) THEN 0
    ELSE IF profit_reaches(pos, current_price, levels[k][1]) /\ levels[k][1] \notin pos.taken
         THEN k
         ELSE first_untaken_level(pos, current_price, levels, k + 1)

\* Mutant: the key of the level found is not set.
partial_profit_taking_unmarked(pos, current_price, levels) ==
    LET k == first_untaken_level(pos, current_price, levels, 1)
    IN  IF k = 0 THEN [ret |-> 0, position |-> pos, level |-> 0]
        ELSE [ret |-> levels[k][2], position |-> pos, level |-> k]

\* ExitStrategies.partial_profit_taking: the value returned, the position
\* with the key of the level found set, and the index of that level.
\* pos.taken is the set of level_pct values whose key taken_<level_pct> is
\* set on the position.
partial_profit_taking(pos, current_price, levels) ==
    LET k == first_untaken_level(pos, current_price, levels, 1)
    IN  IF k = 0 THEN [ret |-> 0, position |-> pos, level |-> 0]
        ELSE [ret |-> levels[k][2],
              position |-> [pos EXCEPT !.taken = pos.taken \cup {levels[k][1]}],
              level |-> k]

InitPartial ==
    /\ mode = "partial"
    /\ \E d \in {"buy", "sell"}, ls \in PartialLevels :
          ppt = [position |-> [direction |-> d, entry_price |-> BasePrice, taken |-> {}],
                 levels |-> ls,
                 calls |-> 0,
                 price |-> BasePrice,
                 before |-> {},
                 ret |-> 0,
                 level |-> 0,
                 signals |-> [k \in 1 .. Len(ls) |-> 0]]
    \* the other programs do not run
    /\ conn = NoConnect
    /\ nw = NoNews
    /\ obv = NoObv
    /\ cf = NoConfirm
    /\ cache = NoCache
    /\ ind = NoIndicators
    /\ pt = NoTracker
    /\ flat = NoFlat
    /\ pair = NoPair
    /\ fleet = <<>>
    /\ loop = NoLoop
    /\ tsl = NoTrail
    /\ opt = NoOptimizer
    /\ wf = NoWalk
    /\ pc = "idle"
    /\ nBars = 0
    /\ i = 0
    /\ position = NoPosition
    /\ current_balance = 0
    /\ trades = <<>>
    /\ equity_curve = <<>>
    /\ report = [error |-> FALSE, pending |-> TRUE]
    /\ hist = NoHist
    /\ szIn = [used |-> FALSE]
    /\ szOut = [bot |-> NoSize, rm |-> NoSize, bt |-> NoSize]
    /\ open_positions = NoPosition
    /\ equity_peak = 0
    /\ daily_equity_start = 0
    /\ tracker = <<>>
    /\ now = 0
    /\ cycles = 0
    /\ lhist = NoLiveHist
    /\ news_adjusts = FALSE

\* One call of partial_profit_taking on a price.  before, price, ret and
\* level record the keys the call found, its price, the value it returned
\* and the level it signalled; signals counts the signals of every level.
PartialProfitTaking ==
    /\ mode = "partial"
    /\ ppt.calls < MaxPartialCalls
    /\ \E price \in PartialPrices :
          LET r == partial_profit_taking(ppt.position, price, ppt.levels)
          IN  ppt' = [ppt EXCEPT !.position = r.position,
                                 !.calls = ppt.calls + 1,
                                 !.price = price,
                                 !.before = ppt.position.taken,
                                 !.ret = r.ret,
                                 !.level = r.level,
                                 !.signals = [k \in DOMAIN ppt.signals |->
                                                IF k = r.level THEN ppt.signals[k] + 1
                                                ELSE ppt.signals[k]]]
    /\ UNCHANGED <<mode, connVars, newsVars, obvVars, cfVars, cacheVars, indVars, ptVars, flatVars, pairVars, loopVars, btVars, szVars, liveVars, tsl, optVars>>

NextPartial == PartialProfitTaking

SpecPartial == InitPartial /\ [][NextPartial]_vars

(***************************************************************************)
(* StrategyOptimizer: the grid search                                      *)
(***************************************************************************)

MaxTrials == 6         \* backtests one optimizer instance runs in all its calls

NEG_INF == -1000       \* -float('inf'), below every score

\* best_params before a trial has succeeded.  (A combination of a grid with
\* at least one key is never empty.)
None == <<>>

\* Parameter grids, as the candidate lists in key order.  A combination is
\* the sequence of the values chosen, in key order.
Grids == {<<<<1, 2>>, <<1, 2>>>>, <<<<1, 2>>>>}

\* What one backtest of a trial does: run_backtest returns a report with the
\* error marker, or a report whose metric is the score, or an exception
\* leaves strategy_class, BacktestEngine or run_backtest.
Outcomes ==
    {[kind |-> "error", score |-> 0], [kind |-> "raise", score |-> 0]}
    \cup {[kind |-> "score", score |-> s] : s \in {1, 2}}

\* [<<v>> \o c : c in rest], for every v of vals in order
RECURSIVE product_rows(_, _)
product_rows(vals, rest) ==
    IF vals = <<>> THEN <<>>
    ELSE [j \in 1 .. Len(rest) |-> <<Head(vals)>> \o rest[j]] \o product_rows(Tail(vals), rest)

\* generate_parameter_combinations: itertools.product(*values), the last
\* key varying fastest.
RECURSIVE generate_parameter_combinations(_)
generate_parameter_combinations(values) ==
    IF values = <<>> THEN <<<<>>>>
    ELSE product_rows(Head(values), generate_parameter_combinations(Tail(values)))

\* The configuration the optimizer is given: a dictionary from keys to
\* values.  The keys are numbered; key j of a grid is key j of the
\* configuration, key 2 is absent from this configuration and key 3 is in no
\* grid.
BaseConfig == [key \in {1, 3} |-> 0]

\* The dictionaries of an optimizer are objects on a heap, named by their
\* index: two names of one object see each other's writes.

\* Mutant: the trial's configuration is the base configuration itself.
dict_copy_aliased(heap, ref) == [heap |-> heap, ref |-> ref]

\* base_config.copy(): a new dictionary with the keys and values of the
\* one copied.
dict_copy(heap, ref) == [heap |-> Append(heap, heap[ref]), ref |-> Len(heap) + 1]

\* current_config.update(params): every key of params is set in the
\* dictionary, the other keys keep their values.
dict_update(heap, ref, params) ==
    [heap EXCEPT ![ref] =
        [key \in DOMAIN heap[ref] \cup (1 .. Len(params)) |->
            IF key \in 1 .. Len(params) THEN params[key] ELSE heap[ref][key]]]

\* BacktestEngine.__init__(strategy, config): the engine keeps the
\* configuration it is given and starts flat with an empty trade log and an
\* empty equity curve.
NewBacktestEngine(id, config) ==
    [id |-> id, config |-> config, position |-> NoPosition,
     trades |-> <<>>, equity_curve |-> <<>>]

\* Lines 32-37 of optimize_parameters: the configuration and the engine of
\* a trial.  trials records, for every backtest of the optimizer, the
\* combination, the configuration made for it and the engine built on it.
trial_setup(o, params) ==
    LET copied == dict_copy(o.heap, o.base_config)
    IN  [o EXCEPT !.heap = dict_update(copied.heap, copied.ref, params),
                  !.trials = Append(o.trials,
                      [params |-> params,
                       config |-> copied.ref,
                       engine |-> NewBacktestEngine(Len(o.trials) + 1, copied.ref)])]

\* A StrategyOptimizer after __init__: self.results is empty and no call of
\* optimize_parameters has been made.
NewOptimizer ==
    [results |-> <<>>, pc |-> "ready", calls |-> 0, backtests |-> 0,
     grid |-> <<>>, combos |-> <<>>, k |-> 0, best_score |-> NEG_INF,
     best_params |-> None,
     run |-> <<>>, log |-> <<>>, ret |-> [returned |-> FALSE], data |-> <<>>,
     heap |-> <<BaseConfig>>, base_config |-> 1, trials |-> <<>>]

\* Lines 21-28 of optimize_parameters: the locals of a call.
start_optimize(o, grid) ==
    [o EXCEPT !.pc = "trials",
              !.calls = o.calls + 1,
              !.grid = grid,
              !.combos = generate_parameter_combinations(grid),
              !.k = 0,
              !.best_score = NEG_INF,
              !.best_params = None,
              !.run = <<>>,
              !.log = <<>>,
              !.ret = [returned |-> FALSE]]

\* Mutant: a trial that equals the best score replaces the best.
run_trial_last_best(o, params, outcome) ==
    LET o1 == [trial_setup(o, params) EXCEPT !.k = o.k + 1,
                        !.backtests = o.backtests + 1,
                        !.run = Append(o.run, params),
                        !.log = Append(o.log, outcome)]
    IN  IF outcome.kind = "raise" THEN [o1 EXCEPT !.pc = "raised"]
        ELSE IF outcome.kind = "error" THEN o1
        ELSE LET o2 == [o1 EXCEPT !.results =
                             Append(o.results, [params |-> params, score |-> outcome.score])]
             IN  IF outcome.score >= o.best_score
                 THEN [o2 EXCEPT !.best_score = outcome.score, !.best_params = params]
                 ELSE o2

\* One iteration of the loop of optimize_parameters (lines 30-59) on a
\* combination.  An exception of the backtest is not caught: it leaves the
\* loop and the call.  run and log record the combinations backtested in
\* this call and what each backtest did.
run_trial(o, params, outcome) ==
    LET o1 == [trial_setup(o, params) EXCEPT !.k = o.k + 1,
                        !.backtests = o.backtests + 1,
                        !.run = Append(o.run, params),
                        !.log = Append(o.log, outcome)]
    IN  IF outcome.kind = "raise" THEN [o1 EXCEPT !.pc = "raised"]
        ELSE IF outcome.kind = "error" THEN o1
        ELSE LET o2 == [o1 EXCEPT !.results =
                             Append(o.results, [params |-> params, score |-> outcome.score])]
             IN  IF outcome.score > o.best_score
                 THEN [o2 EXCEPT !.best_score = outcome.score, !.best_params = params]
                 ELSE o2

\* Lines 61-66 of optimize_parameters: the dictionary returned.
return_optimize(o) ==
    [o EXCEPT !.pc = "returned",
              !.ret = [returned |-> TRUE,
                       best_params |-> o.best_params,
                       best_score |-> o.best_score,
                       all_results |-> o.results]]

InitOptimizer ==
    /\ mode = "optimizer"
    /\ opt = NewOptimizer
    \* the other programs do not run
    /\ conn = NoConnect
    /\ nw = NoNews
    /\ obv = NoObv
    /\ cf = NoConfirm
    /\ cache = NoCache
    /\ ind = NoIndicators
    /\ pt = NoTracker
    /\ flat = NoFlat
    /\ pair = NoPair
    /\ fleet = <<>>
    /\ loop = NoLoop
    /\ wf = NoWalk
    /\ tsl = NoTrail
    /\ ppt = NoPartial
    /\ pc = "idle"
    /\ nBars = 0
    /\ i = 0
    /\ position = NoPosition
    /\ current_balance = 0
    /\ trades = <<>>
    /\ equity_curve = <<>>
    /\ report = [error |-> FALSE, pending |-> TRUE]
    /\ hist = NoHist
    /\ szIn = [used |-> FALSE]
    /\ szOut = [bot |-> NoSize, rm |-> NoSize, bt |-> NoSize]
    /\ open_positions = NoPosition
    /\ equity_peak = 0
    /\ daily_equity_start = 0
    /\ tracker = <<>>
    /\ now = 0
    /\ cycles = 0
    /\ lhist = NoLiveHist
    /\ news_adjusts = FALSE

\* optimize_parameters is called, on a new optimizer or on one whose
\* previous call has returned.
OptimizeStart ==
    /\ mode = "optimizer"
    /\ opt.pc \in {"ready", "returned"}
    /\ opt.backtests < MaxTrials
    /\ \E grid \in Grids : opt' = start_optimize(opt, grid)
    /\ UNCHANGED <<mode, connVars, newsVars, obvVars, cfVars, cacheVars, indVars, ptVars, flatVars, pairVars, loopVars, btVars, szVars, liveVars, exVars, wf>>

\* The next combination is backtested.
OptimizeTrial ==
    /\ mode = "optimizer"
    /\ opt.pc = "trials"
    /\ opt.k < Len(opt.combos)
    /\ opt.backtests < MaxTrials
    /\ \E outcome \in Outcomes : opt' = run_trial(opt, opt.combos[opt.k + 1], outcome)
    /\ UNCHANGED <<mode, connVars, newsVars, obvVars, cfVars, cacheVars, indVars, ptVars, flatVars, pairVars, loopVars, btVars, szVars, liveVars, exVars, wf>>

\* The loop is over and optimize_parameters returns.
OptimizeReturn ==
    /\ mode = "optimizer"
    /\ opt.pc = "trials"
    /\ opt.k = Len(opt.combos)
    /\ opt' = return_optimize(opt)
    /\ UNCHANGED <<mode, connVars, newsVars, obvVars, cfVars, cacheVars, indVars, ptVars, flatVars, pairVars, loopVars, btVars, szVars, liveVars, exVars, wf>>

NextOptimizer == OptimizeStart \/ OptimizeTrial \/ OptimizeReturn

SpecOptimizer == InitOptimizer /\ [][NextOptimizer]_vars

(***************************************************************************)
(* StrategyOptimizer.walk_forward_optimization                             *)
(***************************************************************************)

MaxWindows == 3        \* greatest n_windows of a walk-forward call

\* len(self.data)
WalkLengths == {2, 10, 100}
\* train_ratio: the default 0.7 and 0.5, as numerator and denominator
WalkRatios == {<<7, 10>>, <<1, 2>>}
\* The grid of the walk-forward calls: one key with two candidates.
WalkGrid == <<<<1, 2>>>>
\* What the backtest on the test slice does.
WalkTestOutcomes ==
    {[kind |-> "error", score |-> 0], [kind |-> "raise", score |-> 0],
     [kind |-> "score", score |-> 1]}

\* data.iloc[a:b] of a series of the given length, as <<start, stop>>
iloc(length, a, b) == <<Min(a, length), Max(Min(a, length), Min(b, length))>>

\* len() of a slice
slice_len(s) == s[2] - s[1]

\* StrategyOptimizer(strategy_class, config, data)
StrategyOptimizer(data) == [NewOptimizer EXCEPT !.data = data]

\* The loop of optimize_parameters from the current trial to the end or to
\* the first exception; outcomes[j] is what the j-th backtest does.
RECURSIVE run_trials(_, _)
run_trials(o, outcomes) ==
    IF o.pc # "trials" \/ o.k = Len(o.combos) THEN o
    ELSE run_trials(run_trial(o, o.combos[o.k + 1], outcomes[o.k + 1]), outcomes)

\* A whole call of optimize_parameters.
optimize_parameters(o, grid, outcomes) ==
    LET o1 == run_trials(start_optimize(o, grid), outcomes)
    IN  IF o1.pc = "raised" THEN o1 ELSE return_optimize(o1)

\* Lines 102-106 of walk_forward_optimization.
start_walk(total_length, ratio, n_windows) ==
    [pc |-> "windows",
     total_length |-> total_length,
     n_windows |-> n_windows,
     train_length |-> (total_length * ratio[1]) \div ratio[2],
     window_size |-> ((total_length * ratio[1]) \div ratio[2]) \div n_windows,
     i |-> 0,
     results |-> <<>>,
     optimizer |-> NoOptimizer]

\* Mutant: the optimizer of a window is given the whole series.
walk_window_trains_on_all(w, outcomes, test_outcome) ==
    LET train_start == w.i * w.window_size
        train_end == train_start + w.train_length
        test_start == train_end
        test_end == Min(test_start + w.window_size, w.total_length)
        train_data == iloc(w.total_length, train_start, train_end)
        test_data == iloc(w.total_length, test_start, test_end)
    IN  IF slice_len(train_data) = 0 \/ slice_len(test_data) = 0
        THEN [w EXCEPT !.i = w.i + 1]
        ELSE LET o == optimize_parameters(StrategyOptimizer(<<0, w.total_length>>),
                                          WalkGrid, outcomes)
             IN  IF o.pc = "raised" \/ o.ret.best_params = None
                    \/ test_outcome.kind = "raise"
                 THEN [w EXCEPT !.pc = "raised", !.optimizer = o]
                 ELSE [w EXCEPT
                         !.i = w.i + 1,
                         !.optimizer = o,
                         !.results = Append(w.results,
                             [window |-> w.i,
                              train_period |-> <<train_start, train_end>>,
                              test_period |-> <<test_start, test_end>>,
                              best_params |-> o.ret.best_params,
                              train_score |-> o.ret.best_score,
                              test_score |-> test_outcome.score,
                              train_data |-> o.data,
                              test_data |-> test_data,
                              test_params |-> o.ret.best_params])]

\* One iteration of the loop of walk_forward_optimization (lines 108-142).
\* A window with an empty train or test slice is skipped.  The call ends
\* with an exception when a backtest of the training optimisation raises,
\* when the optimisation returns best_params None (test_config.update(None)
\* is a TypeError) or when the backtest on the test slice raises.  A test
\* report with the error marker has no metric: its test_score is 0.
\* train_data, test_data and test_params record the slices handed to the
\* window's optimizer and to the test backtest, and the parameters put into
\* test_config.
walk_window(w, outcomes, test_outcome) ==
    LET train_start == w.i * w.window_size
        train_end == train_start + w.train_length
        test_start == train_end
        test_end == Min(test_start + w.window_size, w.total_length)
        train_data == iloc(w.total_length, train_start, train_end)
        test_data == iloc(w.total_length, test_start, test_end)
    IN  IF slice_len(train_data) = 0 \/ slice_len(test_data) = 0
        THEN [w EXCEPT !.i = w.i + 1]
        ELSE LET o == optimize_parameters(StrategyOptimizer(train_data), WalkGrid, outcomes)
             IN  IF o.pc = "raised" \/ o.ret.best_params = None
                    \/ test_outcome.kind = "raise"
                 THEN [w EXCEPT !.pc = "raised", !.optimizer = o]
                 ELSE [w EXCEPT
                         !.i = w.i + 1,
                         !.optimizer = o,
                         !.results = Append(w.results,
                             [window |-> w.i,
                              train_period |-> <<train_start, train_end>>,
                              test_period |-> <<test_start, test_end>>,
                              best_params |-> o.ret.best_params,
                              train_score |-> o.ret.best_score,
                              test_score |-> test_outcome.score,
                              train_data |-> o.data,
                              test_data |-> test_data,
                              test_params |-> o.ret.best_params])]

InitWalkForward ==
    /\ mode = "walkforward"
    /\ \E total_length \in WalkLengths, ratio \in WalkRatios, n_windows \in 1 .. MaxWindows :
          wf = start_walk(total_length, ratio, n_windows)
    \* the other programs do not run
    /\ conn = NoConnect
    /\ nw = NoNews
    /\ obv = NoObv
    /\ cf = NoConfirm
    /\ cache = NoCache
    /\ ind = NoIndicators
    /\ pt = NoTracker
    /\ flat = NoFlat
    /\ pair = NoPair
    /\ fleet = <<>>
    /\ loop = NoLoop
    /\ opt = NoOptimizer
    /\ tsl = NoTrail
    /\ ppt = NoPartial
    /\ pc = "idle"
    /\ nBars = 0
    /\ i = 0
    /\ position = NoPosition
    /\ current_balance = 0
    /\ trades = <<>>
    /\ equity_curve = <<>>
    /\ report = [error |-> FALSE, pending |-> TRUE]
    /\ hist = NoHist
    /\ szIn = [used |-> FALSE]
    /\ szOut = [bot |-> NoSize, rm |-> NoSize, bt |-> NoSize]
    /\ open_positions = NoPosition
    /\ equity_peak = 0
    /\ daily_equity_start = 0
    /\ tracker = <<>>
    /\ now = 0
    /\ cycles = 0
    /\ lhist = NoLiveHist
    /\ news_adjusts = FALSE

\* The next window of the walk-forward call.
WalkWindow ==
    /\ mode = "walkforward"
    /\ wf.pc = "windows"
    /\ wf.i < wf.n_windows
    /\ \E outcomes \in [1 .. Len(generate_parameter_combinations(WalkGrid)) -> Outcomes],
          test_outcome \in WalkTestOutcomes :
          wf' = walk_window(wf, outcomes, test_outcome)
    /\ UNCHANGED <<mode, connVars, newsVars, obvVars, cfVars, cacheVars, indVars, ptVars, flatVars, pairVars, loopVars, btVars, szVars, liveVars, exVars, opt>>

\* The loop is over and walk_forward_optimization returns the results.
WalkReturn ==
    /\ mode = "walkforward"
    /\ wf.pc = "windows"
    /\ wf.i = wf.n_windows
    /\ wf' = [wf EXCEPT !.pc = "returned"]
    /\ UNCHANGED <<mode, connVars, newsVars, obvVars, cfVars, cacheVars, indVars, ptVars, flatVars, pairVars, loopVars, btVars, szVars, liveVars, exVars, opt>>

NextWalkForward == WalkWindow \/ WalkReturn

SpecWalkForward == InitWalkForward /\ [][NextWalkForward]_vars

(***************************************************************************)
(* run_live_mode: the main trading loop over the bots                      *)
(***************************************************************************)

NumBots == 2           \* bots initialize_bots returned
MaxIterations == 1     \* times the while loop starts over

DASHBOARD_EVERY == 10  \* cycle_count % 10

\* How far a call of run_single_cycle gets: it returns before
\* check_risk_limits (no connection, news), returns after it (risk limit,
\* market closed, spread, no data), runs to the end, or an exception is
\* raised somewhere in it and caught by its own except clause.
CycleStages == {"skipped", "gated", "full", "error"}

\* The equity peak check_risk_limits may raise the bot's peak to.
HighPeak == 1

\* A bot as the cycle leaves it: only attributes of the bot itself are
\* written.  check_risk_limits may raise self.equity_peak; exit_position
\* drops self.open_positions[symbol] and adds a trade to the bot's own
\* performance_tracker; execute_trade sets self.open_positions[symbol].  An
\* exception can leave the cycle after any of these steps.
cycle_results(b, stage) ==
    IF stage = "skipped" THEN {b}
    ELSE LET gated == {[b EXCEPT !.equity_peak = p] : p \in {b.equity_peak, HighPeak}}
             exited == gated \cup {[g EXCEPT !.open = FALSE, !.trades = g.trades + 1] :
                                     g \in {x \in gated : x.open}}
             entered == exited \cup {[x EXCEPT !.open = TRUE] : x \in {y \in exited : ~y.open}}
         IN  IF stage = "gated" THEN gated ELSE entered

\* Mutant: the loop body has no try/except, an exception of the dashboard
\* update leaves the for loop and the while loop.
loop_step_unguarded(l, bot, stage, dashboard_ok) ==
    [l EXCEPT !.cursor = IF l.cycle_count % DASHBOARD_EVERY = 0 /\ ~dashboard_ok
                         THEN l.cursor ELSE l.cursor + 1,
              !.pc = IF l.cycle_count % DASHBOARD_EVERY = 0 /\ ~dashboard_ok
                     THEN "stopped" ELSE "running",
              !.ran = l.ran \cup {bot},
              !.failed = IF stage = "error"
                            \/ (l.cycle_count % DASHBOARD_EVERY = 0 /\ ~dashboard_ok)
                         THEN l.failed \cup {bot} ELSE l.failed,
              !.last = [bot |-> bot, stage |-> stage,
                        dashboard |-> IF l.cycle_count % DASHBOARD_EVERY # 0 THEN "none"
                                      ELSE IF dashboard_ok THEN "updated" ELSE "error"]]

\* The body of the for loop (lines 119-127) on one bot, for the loop's own
\* state: run_single_cycle has returned (it catches its exceptions), the
\* dashboard is updated every tenth cycle, and an exception of the update
\* is caught and logged.  The loop goes on to the next bot.  ran and failed
\* are the bots whose cycle has run, and has raised, in this iteration.
loop_step(l, bot, stage, dashboard_ok) ==
    [l EXCEPT !.cursor = l.cursor + 1,
              !.ran = l.ran \cup {bot},
              !.failed = IF stage = "error"
                            \/ (l.cycle_count % DASHBOARD_EVERY = 0 /\ ~dashboard_ok)
                         THEN l.failed \cup {bot} ELSE l.failed,
              !.last = [bot |-> bot, stage |-> stage,
                        dashboard |-> IF l.cycle_count % DASHBOARD_EVERY # 0 THEN "none"
                                      ELSE IF dashboard_ok THEN "updated" ELSE "error"]]

InitLoop ==
    /\ mode = "loop"
    /\ fleet = [b \in 1 .. NumBots |-> [open |-> FALSE, equity_peak |-> 0, trades |-> 0]]
    /\ loop = [pc |-> "running", cursor |-> 1, cycle_count |-> 0, iterations |-> 0,
               ran |-> {}, failed |-> {}, last |-> [bot |-> 0, stage |-> "none", dashboard |-> "none"],
               before |-> <<>>]
    \* the other programs do not run
    /\ conn = NoConnect
    /\ nw = NoNews
    /\ obv = NoObv
    /\ cf = NoConfirm
    /\ cache = NoCache
    /\ ind = NoIndicators
    /\ pt = NoTracker
    /\ flat = NoFlat
    /\ pair = NoPair
    /\ opt = NoOptimizer
    /\ wf = NoWalk
    /\ tsl = NoTrail
    /\ ppt = NoPartial
    /\ pc = "idle"
    /\ nBars = 0
    /\ i = 0
    /\ position = NoPosition
    /\ current_balance = 0
    /\ trades = <<>>
    /\ equity_curve = <<>>
    /\ report = [error |-> FALSE, pending |-> TRUE]
    /\ hist = NoHist
    /\ szIn = [used |-> FALSE]
    /\ szOut = [bot |-> NoSize, rm |-> NoSize, bt |-> NoSize]
    /\ open_positions = NoPosition
    /\ equity_peak = 0
    /\ daily_equity_start = 0
    /\ tracker = <<>>
    /\ now = 0
    /\ cycles = 0
    /\ lhist = NoLiveHist
    /\ news_adjusts = FALSE

\* The for loop reaches the next bot: its cycle runs, then the dashboard
\* update.  before keeps the bots as they were before the step.
LoopCycle ==
    /\ mode = "loop"
    /\ loop.pc = "running"
    /\ loop.cursor <= NumBots
    /\ \E stage \in CycleStages, dashboard_ok \in BOOLEAN :
       \E b \in cycle_results(fleet[loop.cursor], stage) :
          /\ fleet' = [fleet EXCEPT ![loop.cursor] = b]
          /\ loop' = [loop_step(loop, loop.cursor, stage, dashboard_ok)
                        EXCEPT !.before = fleet]
    /\ UNCHANGED <<mode, connVars, newsVars, obvVars, cfVars, cacheVars, indVars, ptVars, flatVars, pairVars, btVars, szVars, liveVars, exVars, optVars>>

\* The for loop is over: cycle_count is advanced (and reset every 30
\* iterations), the loop sleeps and starts over.
LoopSleep ==
    /\ mode = "loop"
    /\ loop.pc = "running"
    /\ loop.cursor = NumBots + 1
    /\ loop.iterations < MaxIterations
    /\ loop' = [loop EXCEPT !.cursor = 1,
                            !.ran = {},
                            !.failed = {},
                            !.iterations = loop.iterations + 1,
                            !.cycle_count = (IF loop.cycle_count % 30 = 0 THEN 0
                                             ELSE loop.cycle_count) + 1]
    /\ UNCHANGED <<mode, connVars, newsVars, obvVars, cfVars, cacheVars, indVars, ptVars, flatVars, pairVars, fleet, btVars, szVars, liveVars, exVars, optVars>>

NextLoop == LoopCycle \/ LoopSleep

SpecLoop == InitLoop /\ [][NextLoop]_vars

SpecSizing == InitSizing /\ [][NextSizing]_vars

SpecBacktest == InitBacktest /\ [][NextBacktest]_vars

SpecLive == InitLive /\ [][NextLive]_vars

(***************************************************************************)
(* Two runs of run_backtest side by side.  The two series are flat at      *)
(* BasePrice over the warm-up window and take closes of Closes afterwards. *)
(* The arithmetic of the indicators and of the strategy is not evaluated:  *)
(* an indicator at a row is the rows of the series the pandas operation    *)
(* reads for it, and a value computed from rows is a digest of the closes  *)
(* of exactly those rows.  The engine's own steps (exit check, entry       *)
(* check, sizing, pnl, equity point) are the ones of the backtest program. *)
(***************************************************************************)

MaxTail == 2           \* bars after the warm-up window in the compared series
CONFIG_RSI_PERIOD == 9 \* "RSI_PERIOD": 9
ATR_PERIOD == 14       \* "ATR_PERIOD": 14

Tails == [1 .. MaxTail -> Closes]

\* data.iloc[r] of a series: its close at row r (rows count from 0).
row_close(tail, r) == IF r < WARMUP THEN BasePrice ELSE tail[r - WARMUP + 1]

\* ewm(span=..., adjust=False).mean() at row t: every row up to t.
ewm_rows(t) == 0 .. t

\* rolling(window=w) at row t: the last w rows up to t.
rolling_rows(t, w) == Max(0, t - w + 1) .. t

\* shift(1) at row t: the row before.
shift_rows(t) == IF t >= 1 THEN {t - 1} ELSE {}

\* diff() at row t: the row and the row before.
diff_rows(t) == {t} \cup shift_rows(t)

\* calculate_rsi: rolling means of the clipped diff.
RSI_rows(t) == UNION {diff_rows(r) : r \in rolling_rows(t, CONFIG_RSI_PERIOD)}

\* calculate_macd: the ewm of the difference of two ewm.
MACD_HIST_rows(t) == UNION {ewm_rows(r) : r \in ewm_rows(t)}

\* calculate_atr: the rolling mean of the true range (row and shift(1)).
ATR_rows(t) == UNION {{r} \cup shift_rows(r) : r \in rolling_rows(t, ATR_PERIOD)}

\* Mutant: the whole series is handed to the entry check.
previous_bars_whole(idx, n) == 0 .. (n - 1)

\* previous_bars = data.iloc[:i+1].
previous_bars(idx, n) == 0 .. idx

\* check_entry_conditions: the rows behind the confirmations.  The weekly
\* and the daily resample read every row of previous_bars; the strategy
\* reads the last row of previous_bars of each indicator column.
confirmation_rows(idx, n) ==
    LET df == previous_bars(idx, n)
        last == CHOOSE r \in df : \A q \in df : q <= r
    IN  df \cup ewm_rows(last) \cup MACD_HIST_rows(last) \cup RSI_rows(last)

\* A value computed from the closes of the given rows.
RECURSIVE digest_from(_, _, _)
digest_from(tail, rows, k) ==
    IF k > Len(tail) THEN 0
    ELSE (CASE (WARMUP + k - 1) \notin rows -> 0
            [] tail[k] < BasePrice -> 1
            [] tail[k] = BasePrice -> 2
            [] OTHER -> 3)
         + 5 * digest_from(tail, rows, k + 1)

ConfSeq == <<<<20, 0>>, <<45, 30>>, <<30, 45>>, <<30, 30>>>>
AtrSeq == <<1000, 0>>

\* The bar the loop hands to the checks at index idx, with its ATR.
current_bar(tail, idx) ==
    [index |-> idx, time |-> TimeOf(idx), close |-> row_close(tail, idx),
     ATR |-> AtrSeq[(digest_from(tail, ATR_rows(idx), 1) % Len(AtrSeq)) + 1]]

\* strategy.calculate_confirmations on previous_bars.
pair_confirmations(tail, idx, n) ==
    ConfSeq[(digest_from(tail, confirmation_rows(idx, n), 1) % Len(ConfSeq)) + 1]

NewRun == [position |-> NoPosition, balance |-> INITIAL_BALANCE, trades |-> <<>>,
           equity_curve |-> <<[timestamp |-> TimeOf(0), equity |-> INITIAL_BALANCE]>>,
           decisions |-> <<>>]

\* One iteration of the main loop of run_backtest on a bar, given the
\* confirmations the strategy returns on it.
engine_bar(run, bar, conf, slippage, sym) ==
    LET exit_signal == IF run.position.open
                       THEN bt_check_exit_conditions(run.position, bar)
                       ELSE "none"
        cur == [position |-> run.position, balance |-> run.balance, trades |-> run.trades]
        afterExit == IF exit_signal # "none"
                     THEN exit_trade(run.position, run.balance, run.trades, bar, exit_signal)
                     ELSE cur
        newPos == IF bt_entry_guard(afterExit.position)
                  THEN check_entry_conditions(afterExit.position, afterExit.balance, bar,
                                              conf, slippage, sym)
                  ELSE afterExit.position
        entered == IF newPos.open /\ newPos.entry_index = bar.index
                   THEN newPos.direction ELSE "none"
    IN  [position |-> newPos,
         balance |-> afterExit.balance,
         trades |-> afterExit.trades,
         equity_curve |-> update_equity_curve(run.equity_curve, bar, newPos,
                                              afterExit.balance),
         decisions |-> Append(run.decisions,
                              [index |-> bar.index, exit |-> exit_signal, entry |-> entered])]

\* The iteration on bar idx of a series of the pair.
run_bar(run, tail, idx, slippage) ==
    engine_bar(run, current_bar(tail, idx),
               pair_confirmations(tail, idx, WARMUP + Len(tail)), slippage, BT_SYMBOL)

InitPair ==
    /\ mode = "pair"
    /\ \E ta \in Tails, tb \in Tails :
         pair = [pc |-> "loop", a |-> ta, b |-> tb, i |-> bar_range(WARMUP + MaxTail).start,
                 A |-> NewRun, B |-> NewRun]
    \* the other programs do not run
    /\ conn = NoConnect
    /\ nw = NoNews
    /\ obv = NoObv
    /\ cf = NoConfirm
    /\ cache = NoCache
    /\ ind = NoIndicators
    /\ pt = NoTracker
    /\ flat = NoFlat
    /\ fleet = <<>>
    /\ loop = NoLoop
    /\ opt = NoOptimizer
    /\ wf = NoWalk
    /\ tsl = NoTrail
    /\ ppt = NoPartial
    /\ pc = "idle"
    /\ nBars = 0
    /\ i = 0
    /\ position = NoPosition
    /\ current_balance = 0
    /\ trades = <<>>
    /\ equity_curve = <<>>
    /\ report = [error |-> FALSE, pending |-> TRUE]
    /\ hist = NoHist
    /\ szIn = [used |-> FALSE]
    /\ szOut = [bot |-> NoSize, rm |-> NoSize, bt |-> NoSize]
    /\ open_positions = NoPosition
    /\ equity_peak = 0
    /\ daily_equity_start = 0
    /\ tracker = <<>>
    /\ now = 0
    /\ cycles = 0
    /\ lhist = NoLiveHist
    /\ news_adjusts = FALSE

\* Both runs process their bar pair.i, with the same slippage draw.
PairBar ==
    /\ mode = "pair"
    /\ pair.pc = "loop"
    /\ pair.i < bar_range(WARMUP + MaxTail).stop
    /\ \E slippage \in Slips :
         pair' = [pair EXCEPT !.i = pair.i + 1,
                              !.A = run_bar(pair.A, pair.a, pair.i, slippage),
                              !.B = run_bar(pair.B, pair.b, pair.i, slippage)]
    /\ UNCHANGED <<mode, connVars, newsVars, obvVars, cfVars, cacheVars, indVars, ptVars, flatVars, btVars, szVars, liveVars, exVars, optVars, loopVars>>

\* Both runs return after their last bar.
PairReturn ==
    /\ mode = "pair"
    /\ pair.pc = "loop"
    /\ pair.i >= bar_range(WARMUP + MaxTail).stop
    /\ pair' = [pair EXCEPT !.pc = "done"]
    /\ UNCHANGED <<mode, connVars, newsVars, obvVars, cfVars, cacheVars, indVars, ptVars, flatVars, btVars, szVars, liveVars, exVars, optVars, loopVars>>

NextPair == PairBar \/ PairReturn

SpecPair == InitPair /\ [][NextPair]_vars

(***************************************************************************)
(* run_backtest over a flat series: every bar has open = high = low =      *)
(* close = c and the same tick volume.  On such a series the indicator     *)
(* columns are known exactly, so the strategies' confirmations are         *)
(* evaluated as the code evaluates them (scores in tenths, the MACD        *)
(* histogram in price ticks, the RSI in whole points).                     *)
(***************************************************************************)

MaxFlatBars == 3       \* bars after the warm-up window in the flat series

Strategies == {"gold", "oil", "indices", "scalping"}
FlatCloses == {BasePrice, BasePrice + 2250}
\* Weeks the series spans: hourly bars (under ten weeks) or daily bars.
FlatWeeks == {2, 43}

\* 'XAU' in SYMBOL or 'XAG' in SYMBOL, by strategy.
symbol_class(strategy) == IF strategy = "gold" THEN "metal" ELSE "other"

\* ewm(...).mean() over a series that is constant at c.
ewm_mean_flat(c) == c

\* calculate_rsi: rs = ma_up / (ma_down + 1e-12), 100 - 100 / (1 + rs).
rsi_value(ma_up, ma_down) ==
    IF ma_up = 0 THEN 0
    ELSE IF ma_down = 0 THEN 100
    ELSE (100 * ma_up) \div (ma_up + ma_down)

\* The last row of calculate_indicators(data).iloc[:i+1] on the flat series:
\* tick_volume of the bar, prev_volume of each of the 19 bars before it.
flat_frame(c) ==
    [close |-> c, prev_close |-> c,
     EMA_fast |-> ewm_mean_flat(c), EMA_slow |-> ewm_mean_flat(c),
     MACD_HIST |-> (ewm_mean_flat(c) - ewm_mean_flat(c)) - ewm_mean_flat(0),
     RSI |-> rsi_value(0, 0), ATR |-> 0,
     tick_volume |-> 100, prev_volume |-> 100]

\* get_fibonacci_levels: the weekly bias ("neutral" with no levels when
\* there are under ten weeks or no range).
weekly_bias_of(weeks, highest, lowest, last_close, mean_close) ==
    IF weeks < 10 THEN "neutral"
    ELSE IF highest - lowest <= 0 THEN "neutral"
    ELSE IF last_close > mean_close THEN "bull" ELSE "bear"

\* GoldStrategy.calculate_confirmations without Fibonacci levels.
gold_confirmations(f, bias) ==
    LET macd_strength == Min(Abs(f.MACD_HIST), 20)
        buy == (IF bias = "bull" THEN 12 ELSE 0)
               + (IF f.EMA_fast > f.EMA_slow THEN 10 ELSE 0)
               + (IF f.MACD_HIST > 0 THEN macd_strength ELSE 0)
               + (IF f.RSI > 55 THEN 10 ELSE 0)
        sell == (IF bias = "bear" THEN 12 ELSE 0)
                + (IF f.EMA_fast > f.EMA_slow THEN 0 ELSE 10)
                + (IF f.MACD_HIST > 0 THEN 0 ELSE macd_strength)
                + (IF f.RSI <= 55 /\ f.RSI < 45 THEN 10 ELSE 0)
    IN  [raised |-> FALSE, conf |-> <<buy, sell>>]

\* current_volume > volume_avg * 1.5, volume_avg the mean of the last 20
\* volumes, the bar's own included.
volume_spike(f) == 40 * f.tick_volume > 3 * (19 * f.prev_volume + f.tick_volume)

\* The volume confirmation of OilStrategy.calculate_confirmations: what it
\* adds to buy and to sell.
oil_volume_check(f, bias) ==
    IF volume_spike(f)
    THEN IF bias = "bull" THEN <<5, 0>> ELSE <<0, 5>>
    ELSE <<0, 0>>

\* OilStrategy.calculate_confirmations.
oil_confirmations(f, bias) ==
    LET buy == (IF bias = "bull" THEN 10 ELSE 0)
               + (IF f.EMA_fast > f.EMA_slow THEN 12 ELSE 0)
               + (IF f.MACD_HIST > 0 THEN 10 ELSE 0)
               + (IF f.RSI > 60 THEN 10 ELSE 0)
               + oil_volume_check(f, bias)[1]
        sell == (IF bias = "bear" THEN 10 ELSE 0)
                + (IF f.EMA_fast > f.EMA_slow THEN 0 ELSE 12)
                + (IF f.MACD_HIST > 0 THEN 0 ELSE 10)
                + (IF f.RSI <= 60 /\ f.RSI < 40 THEN 10 ELSE 0)
                + oil_volume_check(f, bias)[2]
    IN  [raised |-> FALSE, conf |-> <<buy, sell>>]

\* The price action confirmation of IndicesStrategy.calculate_confirmations:
\* what a move of more than 0.3% adds to buy and to sell.
indices_price_action_check(f, bias) ==
    LET move == f.close - f.prev_close
    IN  IF Abs(move) * 1000 > 3 * f.prev_close
        THEN IF move > 0 /\ bias = "bull" THEN <<5, 0>>
             ELSE IF move < 0 /\ bias = "bear" THEN <<0, 5>> ELSE <<0, 0>>
        ELSE <<0, 0>>

\* IndicesStrategy.calculate_confirmations: the EMA difference must exceed
\* 0.1% of the price and the histogram 0.001.
indices_confirmations(f, bias) ==
    LET meaningful == Abs(f.EMA_fast - f.EMA_slow) * 1000 > f.close
        buy == (IF bias = "bull" THEN 10 ELSE 0)
               + (IF f.EMA_fast > f.EMA_slow /\ meaningful THEN 10 ELSE 0)
               + (IF f.MACD_HIST > 10 THEN 10 ELSE 0)
               + (IF f.RSI > 55 THEN 10 ELSE 0)
               + indices_price_action_check(f, bias)[1]
        sell == (IF bias = "bear" THEN 10 ELSE 0)
                + (IF f.EMA_fast < f.EMA_slow /\ meaningful THEN 10 ELSE 0)
                + (IF f.MACD_HIST < -10 THEN 10 ELSE 0)
                + (IF f.RSI <= 55 /\ f.RSI < 45 THEN 10 ELSE 0)
                + indices_price_action_check(f, bias)[2]
    IN  [raised |-> FALSE, conf |-> <<buy, sell>>]

\* ScalpingStrategy.calculate_confirmations: calculate_fast_rsi returns a
\* Series, and "if rsi < 30" on a Series raises ValueError.
scalping_confirmations(f, bias) == [raised |-> TRUE, conf |-> <<0, 0>>]

\* strategy.calculate_confirmations(previous_bars, fib_levels, daily_levels,
\* weekly_bias)
calculate_confirmations(strategy, f, bias) ==
    CASE strategy = "gold" -> gold_confirmations(f, bias)
      [] strategy = "oil" -> oil_confirmations(f, bias)
      [] strategy = "indices" -> indices_confirmations(f, bias)
      [] OTHER -> scalping_confirmations(f, bias)

InitFlat ==
    /\ mode = "flat"
    /\ \E strategy \in Strategies, c \in FlatCloses, weeks \in FlatWeeks :
         flat = [pc |-> "loop", strategy |-> strategy, close |-> c, weeks |-> weeks,
                 i |-> bar_range(WARMUP + MaxFlatBars).start, run |-> NewRun,
                 report |-> [error |-> FALSE, pending |-> TRUE]]
    \* the other programs do not run
    /\ conn = NoConnect
    /\ nw = NoNews
    /\ obv = NoObv
    /\ cf = NoConfirm
    /\ cache = NoCache
    /\ ind = NoIndicators
    /\ pt = NoTracker
    /\ fleet = <<>>
    /\ loop = NoLoop
    /\ pair = NoPair
    /\ opt = NoOptimizer
    /\ wf = NoWalk
    /\ tsl = NoTrail
    /\ ppt = NoPartial
    /\ pc = "idle"
    /\ nBars = 0
    /\ i = 0
    /\ position = NoPosition
    /\ current_balance = 0
    /\ trades = <<>>
    /\ equity_curve = <<>>
    /\ report = [error |-> FALSE, pending |-> TRUE]
    /\ hist = NoHist
    /\ szIn = [used |-> FALSE]
    /\ szOut = [bot |-> NoSize, rm |-> NoSize, bt |-> NoSize]
    /\ open_positions = NoPosition
    /\ equity_peak = 0
    /\ daily_equity_start = 0
    /\ tracker = <<>>
    /\ now = 0
    /\ cycles = 0
    /\ lhist = NoLiveHist
    /\ news_adjusts = FALSE

\* One iteration of the main loop of run_backtest on bar flat.i.
FlatBar ==
    /\ mode = "flat"
    /\ flat.pc = "loop"
    /\ flat.i < bar_range(WARMUP + MaxFlatBars).stop
    /\ \E slippage \in Slips :
         LET f == flat_frame(flat.close)
             bar == [index |-> flat.i, time |-> TimeOf(flat.i), close |-> f.close,
                     ATR |-> f.ATR]
             bias == weekly_bias_of(flat.weeks, flat.close, flat.close, flat.close,
                                    flat.close)
             confirmations == calculate_confirmations(flat.strategy, f, bias)
         IN  IF ~flat.run.position.open /\ confirmations.raised
             THEN flat' = [flat EXCEPT !.pc = "raised"]
             ELSE flat' = [flat EXCEPT !.i = flat.i + 1,
                                       !.run = engine_bar(flat.run, bar, confirmations.conf,
                                                          slippage,
                                                          symbol_class(flat.strategy))]
    /\ UNCHANGED <<mode, connVars, newsVars, obvVars, cfVars, cacheVars, indVars, ptVars, btVars, szVars, liveVars, exVars, optVars, loopVars, pairVars>>

\* The end of run_backtest: generate_report after the last bar.
FlatReturn ==
    /\ mode = "flat"
    /\ flat.pc = "loop"
    /\ flat.i >= bar_range(WARMUP + MaxFlatBars).stop
    /\ flat' = [flat EXCEPT !.pc = "done",
                            !.report = generate_report(flat.run.balance, flat.run.trades,
                                                       flat.run.equity_curve)]
    /\ UNCHANGED <<mode, connVars, newsVars, obvVars, cfVars, cacheVars, indVars, ptVars, btVars, szVars, liveVars, exVars, optVars, loopVars, pairVars>>

NextFlat == FlatBar \/ FlatReturn

SpecFlat == InitFlat /\ [][NextFlat]_vars

(***************************************************************************)
(* PerformanceTracker: add_trade builds the trade log and the equity       *)
(* curve, calculate_stats computes the statistics of the tracker, and      *)
(* BacktestEngine.generate_report those of an engine whose trade log and   *)
(* equity values are the same.  ret is what the last call returned.        *)
(***************************************************************************)

MaxTrades == 3         \* add_trade calls on the tracker

\* pnl of the added trades, in 0.0001 units: -5000, +15000, -6000 and 0.
TradePnls == {-50000000, 150000000, -60000000, 0}
\* exit_time of the added trades: not necessarily in call order.
ExitTimes == {BarHours, 2 * BarHours}

\* The trades added: those the live bot records carry no commission (bot_core
\* exit_position), those of a backtest engine carry the commission that
\* exit_trade has already taken from their pnl, here 7.
TradeInfos ==
    [pnl : TradePnls, exit_time : ExitTimes]
    \cup [pnl : TradePnls, exit_time : ExitTimes, commission : {70000}]

\* PerformanceTracker.__init__: the curve starts with a point stamped with
\* the time of construction.
NewTracker ==
    [pc |-> "open", trades |-> <<>>, current_balance |-> INITIAL_BALANCE,
     equity_curve |-> <<[timestamp |-> 0, equity |-> INITIAL_BALANCE]>>,
     calls |-> <<>>, ret |-> [op |-> "none"]]

\* Mutant: the equity point is written before the balance is updated.
add_trade_stale_equity(t, trade_info) ==
    [t EXCEPT !.trades = Append(t.trades, trade_info),
              !.current_balance = t.current_balance + trade_info.pnl,
              !.equity_curve = Append(t.equity_curve,
                                      [timestamp |-> trade_info.exit_time,
                                       equity |-> t.current_balance])]

\* add_trade
add_trade(t, trade_info) ==
    [t EXCEPT !.trades = Append(t.trades, trade_info),
              !.current_balance = t.current_balance + trade_info.pnl,
              !.equity_curve = Append(t.equity_curve,
                                      [timestamp |-> trade_info.exit_time,
                                       equity |-> t.current_balance + trade_info.pnl])]

\* np.maximum.accumulate(equities)
maximum_accumulate(equities) ==
    [k \in 1 .. Len(equities) |->
        CHOOSE m \in {equities[j] : j \in 1 .. k} : \A j \in 1 .. k : equities[j] <= m]

\* np.max of a non-empty array of rationals.
QMaxOf(xs) == CHOOSE m \in {xs[k] : k \in 1 .. Len(xs)} :
                  \A k \in 1 .. Len(xs) : ~QLess(m, xs[k])

\* calculate_drawdown_stats, on a curve that starts at a positive balance.
calculate_drawdown_stats(curve) ==
    LET equities == Equities(curve)
        peaks == maximum_accumulate(equities)
        drawdowns == [k \in 1 .. Len(equities) |->
                         drawdown_pct_of(peaks[k] - equities[k], peaks[k])]
    IN  [max_drawdown |-> CHOOSE m \in {peaks[k] - equities[k] : k \in 1 .. Len(equities)} :
                              \A k \in 1 .. Len(equities) : peaks[k] - equities[k] <= m,
         max_drawdown_pct |-> QMaxOf(drawdowns)]

\* sum(t['pnl'] for t in trades)
RECURSIVE total_pnl(_)
total_pnl(ts) == IF ts = <<>> THEN 0 ELSE Head(ts).pnl + total_pnl(Tail(ts))

\* sum(t.get('commission', 0) for t in trades)
RECURSIVE total_commission(_)
total_commission(ts) ==
    IF ts = <<>> THEN 0
    ELSE (IF "commission" \in DOMAIN Head(ts) THEN Head(ts).commission ELSE 0)
         + total_commission(Tail(ts))

\* calculate_stats, reduced to the fields the claims read: {} without trades.
calculate_stats(t) ==
    IF t.trades = <<>> THEN [empty |-> TRUE]
    ELSE [empty |-> FALSE,
          initial_balance |-> INITIAL_BALANCE,
          final_balance |-> t.current_balance,
          total_pnl |-> total_pnl(t.trades),
          total_commission |-> total_commission(t.trades),
          net_profit |-> total_pnl(t.trades) - total_commission(t.trades),
          total_trades |-> Len(t.trades),
          winning_trades |-> Len(winning_trades(t.trades)),
          losing_trades |-> Len(losing_trades(t.trades)),
          profit_factor |-> profit_factor(t.trades),
          max_drawdown |-> calculate_drawdown_stats(t.equity_curve).max_drawdown,
          max_drawdown_pct |-> calculate_drawdown_stats(t.equity_curve).max_drawdown_pct]

InitTracker ==
    /\ mode = "tracker"
    /\ pt = NewTracker
    \* the other programs do not run
    /\ conn = NoConnect
    /\ nw = NoNews
    /\ obv = NoObv
    /\ cf = NoConfirm
    /\ cache = NoCache
    /\ ind = NoIndicators
    /\ fleet = <<>>
    /\ loop = NoLoop
    /\ pair = NoPair
    /\ flat = NoFlat
    /\ opt = NoOptimizer
    /\ wf = NoWalk
    /\ tsl = NoTrail
    /\ ppt = NoPartial
    /\ pc = "idle"
    /\ nBars = 0
    /\ i = 0
    /\ position = NoPosition
    /\ current_balance = 0
    /\ trades = <<>>
    /\ equity_curve = <<>>
    /\ report = [error |-> FALSE, pending |-> TRUE]
    /\ hist = NoHist
    /\ szIn = [used |-> FALSE]
    /\ szOut = [bot |-> NoSize, rm |-> NoSize, bt |-> NoSize]
    /\ open_positions = NoPosition
    /\ equity_peak = 0
    /\ daily_equity_start = 0
    /\ tracker = <<>>
    /\ now = 0
    /\ cycles = 0
    /\ lhist = NoLiveHist
    /\ news_adjusts = FALSE

\* tracker.add_trade(trade_info)
AddTrade ==
    /\ mode = "tracker"
    /\ Len(pt.trades) < MaxTrades
    /\ \E trade_info \in TradeInfos :
         pt' = [add_trade(pt, trade_info) EXCEPT !.calls = Append(pt.calls, trade_info),
                                                 !.ret = [op |-> "add_trade"]]
    /\ UNCHANGED <<mode, connVars, newsVars, obvVars, cfVars, cacheVars, indVars, btVars, szVars, liveVars, exVars, optVars, loopVars, pairVars,
                   flatVars>>

\* tracker.calculate_stats()
CalculateStats ==
    /\ mode = "tracker"
    /\ pt' = [pt EXCEPT !.ret = [op |-> "calculate_stats", stats |-> calculate_stats(pt)]]
    /\ UNCHANGED <<mode, connVars, newsVars, obvVars, cfVars, cacheVars, indVars, btVars, szVars, liveVars, exVars, optVars, loopVars, pairVars,
                   flatVars>>

\* generate_report() of an engine holding the same trades and equity values.
EngineReport ==
    /\ mode = "tracker"
    /\ pt' = [pt EXCEPT !.ret = [op |-> "generate_report",
                                  report |-> generate_report(pt.current_balance, pt.trades,
                                                             pt.equity_curve)]]
    /\ UNCHANGED <<mode, connVars, newsVars, obvVars, cfVars, cacheVars, indVars, btVars, szVars, liveVars, exVars, optVars, loopVars, pairVars,
                   flatVars>>

NextTracker == AddTrade \/ CalculateStats \/ EngineReport

SpecTracker == InitTracker /\ [][NextTracker]_vars

(***************************************************************************)
(* The indicator functions calculate_rsi, calculate_macd and calculate_atr *)
(* of the backtest engine, of the live bot and of DataManager, on a good   *)
(* and on a malformed input.  The three bodies are the same pandas         *)
(* expressions; what differs is the try/except around them.  A result is   *)
(* a series of computed values, a series filled with a default, or an      *)
(* exception.                                                              *)
(***************************************************************************)

MaxRows == 3           \* rows of the series or frame handed to an indicator
RSI_DEFAULT == 50      \* pd.Series([50] * len(series), ...)

Components == {"engine", "bot", "data_manager"}
Indicators == {"rsi", "macd", "atr"}

\* The inputs of an indicator: numeric data of 0 rows (empty) or more, a
\* column of strings, and for calculate_atr a frame without its 'high'
\* column (pd.DataFrame() is such a frame of 0 rows).
indicator_inputs(indicator) ==
    [kind : {"numeric"}, rows : 0 .. MaxRows]
      \cup [kind : {"non_numeric"}, rows : 1 .. MaxRows]
      \cup (IF indicator = "atr" THEN [kind : {"missing_column"}, rows : 0 .. MaxRows] ELSE {})

\* The pandas expressions of an indicator: diff, ewm and the subtraction of
\* columns raise on strings, df['high'] raises KeyError without the column.
pandas_body(indicator, input) ==
    IF input.kind = "non_numeric" THEN [status |-> "raised"]
    ELSE IF input.kind = "missing_column" THEN [status |-> "raised"]
    ELSE [status |-> "computed", length |-> input.rows]

\* The series an except branch returns: 50 for the RSI, 0 otherwise.
default_series(indicator, input) ==
    [status |-> "default", length |-> input.rows,
     fill |-> IF indicator = "rsi" THEN RSI_DEFAULT ELSE 0]

\* BacktestEngine.calculate_rsi / calculate_macd / calculate_atr: the body
\* without try/except.
bt_calculate(indicator, input) == pandas_body(indicator, input)

\* MultiInstrumentBot.calculate_rsi / calculate_macd / calculate_atr.
bot_calculate(indicator, input) ==
    IF pandas_body(indicator, input).status = "raised"
    THEN default_series(indicator, input)
    ELSE pandas_body(indicator, input)

\* DataManager.calculate_rsi / calculate_macd / calculate_atr.
dm_calculate(indicator, input) ==
    IF pandas_body(indicator, input).status = "raised"
    THEN default_series(indicator, input)
    ELSE pandas_body(indicator, input)

InitIndicators ==
    /\ mode = "indicators"
    /\ \E component \in Components, indicator \in Indicators :
       \E input \in indicator_inputs(indicator) :
         ind = [pc |-> "call", component |-> component, indicator |-> indicator,
                input |-> input, result |-> [status |-> "none"]]
    \* the other programs do not run
    /\ conn = NoConnect
    /\ nw = NoNews
    /\ obv = NoObv
    /\ cf = NoConfirm
    /\ cache = NoCache
    /\ fleet = <<>>
    /\ loop = NoLoop
    /\ pair = NoPair
    /\ flat = NoFlat
    /\ pt = NoTracker
    /\ opt = NoOptimizer
    /\ wf = NoWalk
    /\ tsl = NoTrail
    /\ ppt = NoPartial
    /\ pc = "idle"
    /\ nBars = 0
    /\ i = 0
    /\ position = NoPosition
    /\ current_balance = 0
    /\ trades = <<>>
    /\ equity_curve = <<>>
    /\ report = [error |-> FALSE, pending |-> TRUE]
    /\ hist = NoHist
    /\ szIn = [used |-> FALSE]
    /\ szOut = [bot |-> NoSize, rm |-> NoSize, bt |-> NoSize]
    /\ open_positions = NoPosition
    /\ equity_peak = 0
    /\ daily_equity_start = 0
    /\ tracker = <<>>
    /\ now = 0
    /\ cycles = 0
    /\ lhist = NoLiveHist
    /\ news_adjusts = FALSE

\* The call of the indicator function.
CalculateIndicator ==
    /\ mode = "indicators"
    /\ ind.pc = "call"
    /\ ind' = [ind EXCEPT
                 !.pc = "returned",
                 !.result = CASE ind.component = "engine" ->
                                   bt_calculate(ind.indicator, ind.input)
                              [] ind.component = "bot" ->
                                   bot_calculate(ind.indicator, ind.input)
                              [] OTHER -> dm_calculate(ind.indicator, ind.input)]
    /\ UNCHANGED <<mode, connVars, newsVars, obvVars, cfVars, cacheVars, btVars, szVars, liveVars, exVars, optVars, loopVars, pairVars,
                   flatVars, ptVars>>

NextIndicators == CalculateIndicator

SpecIndicators == InitIndicators /\ [][NextIndicators]_vars

(***************************************************************************)
(* The cached reads of market data: DataManager.get_rates and              *)
(* MultiInstrumentBot.fetch_data.  The store maps a cache key to the data  *)
(* of a fetch and its timestamp.  Time is in seconds on a clock that does    *)
(* not go backwards; data is identified by the number of the fetch that    *)
(* returned it.  The last call is kept with the store it found.            *)
(***************************************************************************)

MaxReads == 3          \* reads of one run
CACHE_TIMEOUT == 300   \* self.cache_timeout = 300

\* The time that passes between two reads, and the time a fetch takes.
Elapsed == {0, 150, 300}
Latency == {0, 150}

\* What mt5.copy_rates_from_pos does: rates, None, an empty array, or an
\* exception (in fetch_data the exception may also come from the indicators).
FetchOutcomes == {"rates", "none", "empty", "raise"}

\* The arguments of a read: a bot reads two timeframes of its own symbol,
\* DataManager one timeframe of two symbols.
ReadArgs(component) ==
    IF component = "bot"
    THEN [symbol : {"XAUUSD"}, timeframe : {5, 15}, count : {200}]
    ELSE [symbol : {"XAUUSD", "USOIL"}, timeframe : {5}, count : {200}]

\* f"{symbol}_{timeframe}_{count}": timeframe and count are integers, so the
\* string determines the three parts; the key is kept as the triple.
cache_key(symbol, timeframe, count) == <<symbol, timeframe, count>>

\* self.cache = {} / self.data_cache = {}: the dictionary without a key.
EmptyCache == [k \in {} |-> 0]

\* self.cache[cache_key] = (df, timestamp)
store_entry(store, key, data, stamp) ==
    [k \in DOMAIN store \cup {key} |->
       IF k = key THEN [data |-> data, timestamp |-> stamp] ELSE store[k]]

\* Mutant: an entry is served up to and including the timeout.
is_fresh_inclusive(age) == age <= CACHE_TIMEOUT

\* (now - timestamp).total_seconds() < self.cache_timeout
is_fresh(age) == age < CACHE_TIMEOUT

\* Mutant: an empty array of rates goes on to be stored and returned.
has_rates_or_empty(outcome) == outcome \in {"rates", "empty"}

\* The fetch is stored and returned unless `rates is None or len(rates) == 0`
\* or an exception was caught.
has_rates(outcome) == outcome = "rates"

\* One cached read at time `at`: the entry of the key is returned while it
\* is fresh; otherwise the data is fetched, and stored with `stamp` when
\* rates came back.  A fetch without rates returns an empty frame.
cached_read(c, args, at, stamp, finish, outcome) ==
    LET key == cache_key(args.symbol, args.timeframe, args.count)
        hit == key \in DOMAIN c.store /\ is_fresh(at - c.store[key].timestamp)
        call == [key |-> key, at |-> at, before |-> c.store]
    IN  IF hit
        THEN [c EXCEPT !.now = at, !.reads = @ + 1,
                       !.last = call @@ [fetched |-> FALSE, outcome |-> "none",
                                         ret |-> [kind |-> "cached",
                                                  data |-> c.store[key].data]]]
        ELSE IF has_rates(outcome)
        THEN [c EXCEPT !.now = finish, !.reads = @ + 1, !.fetches = @ + 1,
                       !.store = store_entry(c.store, key, c.fetches + 1, stamp),
                       !.last = call @@ [fetched |-> TRUE, outcome |-> outcome,
                                         ret |-> [kind |-> "fresh",
                                                  data |-> c.fetches + 1]]]
        ELSE [c EXCEPT !.now = finish, !.reads = @ + 1,
                       !.last = call @@ [fetched |-> TRUE, outcome |-> outcome,
                                         ret |-> [kind |-> "empty", data |-> 0]]]

\* No call yet.
NoCall ==
    [key |-> <<>>, at |-> 0, before |-> EmptyCache, fetched |-> FALSE, outcome |-> "none",
     ret |-> [kind |-> "none", data |-> 0]]

InitCache ==
    /\ mode = "cache"
    /\ \E component \in {"data_manager", "bot"} :
         cache = [pc |-> "reading", component |-> component,
                  store |-> EmptyCache,
                  now |-> 0, reads |-> 0, fetches |-> 0, last |-> NoCall]
    \* the other programs do not run
    /\ conn = NoConnect
    /\ nw = NoNews
    /\ obv = NoObv
    /\ cf = NoConfirm
    /\ fleet = <<>>
    /\ loop = NoLoop
    /\ pair = NoPair
    /\ flat = NoFlat
    /\ pt = NoTracker
    /\ ind = NoIndicators
    /\ opt = NoOptimizer
    /\ wf = NoWalk
    /\ tsl = NoTrail
    /\ ppt = NoPartial
    /\ pc = "idle"
    /\ nBars = 0
    /\ i = 0
    /\ position = NoPosition
    /\ current_balance = 0
    /\ trades = <<>>
    /\ equity_curve = <<>>
    /\ report = [error |-> FALSE, pending |-> TRUE]
    /\ hist = NoHist
    /\ szIn = [used |-> FALSE]
    /\ szOut = [bot |-> NoSize, rm |-> NoSize, bt |-> NoSize]
    /\ open_positions = NoPosition
    /\ equity_peak = 0
    /\ daily_equity_start = 0
    /\ tracker = <<>>
    /\ now = 0
    /\ cycles = 0
    /\ lhist = NoLiveHist
    /\ news_adjusts = FALSE

\* DataManager.get_rates: the entry is stamped with the time after the fetch.
GetRates ==
    /\ mode = "cache"
    /\ cache.pc = "reading"
    /\ cache.component = "data_manager"
    /\ cache.reads < MaxReads
    /\ \E args \in ReadArgs("data_manager"), elapsed \in Elapsed, latency \in Latency,
          outcome \in FetchOutcomes :
         cache' = cached_read(cache, args, cache.now + elapsed,
                              cache.now + elapsed + latency,
                              cache.now + elapsed + latency, outcome)
    /\ UNCHANGED <<mode, connVars, newsVars, obvVars, cfVars, btVars, szVars, liveVars, exVars, optVars, loopVars, pairVars,
                   flatVars, ptVars, indVars>>

\* MultiInstrumentBot.fetch_data: the entry is stamped with current_time,
\* taken before the fetch.
FetchData ==
    /\ mode = "cache"
    /\ cache.pc = "reading"
    /\ cache.component = "bot"
    /\ cache.reads < MaxReads
    /\ \E args \in ReadArgs("bot"), elapsed \in Elapsed, latency \in Latency,
          outcome \in FetchOutcomes :
         cache' = cached_read(cache, args, cache.now + elapsed,
                              cache.now + elapsed,
                              cache.now + elapsed + latency, outcome)
    /\ UNCHANGED <<mode, connVars, newsVars, obvVars, cfVars, btVars, szVars, liveVars, exVars, optVars, loopVars, pairVars,
                   flatVars, ptVars, indVars>>

NextCache == GetRates \/ FetchData

SpecCache == InitCache /\ [][NextCache]_vars

\* The live cycle and the cached reads its fetch_data makes.
InitNoRates == InitLive \/ InitCache

NextNoRates == NextLive \/ NextCache

SpecNoRates == InitNoRates /\ [][NextNoRates]_vars

(***************************************************************************)
(* One call of OilStrategy.calculate_confirmations or of                   *)
(* IndicesStrategy.calculate_confirmations on the last rows of a frame,    *)
(* under each weekly bias.  Scores are in tenths.                          *)
(***************************************************************************)

Biases == {"bull", "bear", "neutral"}

\* The last rows of a frame: the fast EMA above, at or below the slow one,
\* the histogram and the RSI on each side of their thresholds, the close
\* after a move of 0.33% or 0.28% either way or of nothing, and a volume of
\* one, one and a half or two times that of the bars before.
ConfirmFrames ==
    [close : {BasePrice}, prev_close : {BasePrice - 60000, BasePrice - 50000, BasePrice,
                                        BasePrice + 60000},
     EMA_fast : {BasePrice - 30000, BasePrice, BasePrice + 30000}, EMA_slow : {BasePrice},
     MACD_HIST : {-20, 0, 20}, RSI : {30, 50, 70}, ATR : {1000},
     tick_volume : {100, 150, 200}, prev_volume : {100}]

InitConfirm ==
    /\ mode = "confirm"
    /\ \E strategy \in {"oil", "indices"}, f \in ConfirmFrames, bias \in Biases :
         cf = [pc |-> "call", strategy |-> strategy, frame |-> f, weekly_bias |-> bias,
               conf |-> <<0, 0>>, without |-> <<0, 0>>]
    \* the other programs do not run
    /\ conn = NoConnect
    /\ nw = NoNews
    /\ obv = NoObv
    /\ fleet = <<>>
    /\ loop = NoLoop
    /\ pair = NoPair
    /\ flat = NoFlat
    /\ pt = NoTracker
    /\ ind = NoIndicators
    /\ cache = NoCache
    /\ opt = NoOptimizer
    /\ wf = NoWalk
    /\ tsl = NoTrail
    /\ ppt = NoPartial
    /\ pc = "idle"
    /\ nBars = 0
    /\ i = 0
    /\ position = NoPosition
    /\ current_balance = 0
    /\ trades = <<>>
    /\ equity_curve = <<>>
    /\ report = [error |-> FALSE, pending |-> TRUE]
    /\ hist = NoHist
    /\ szIn = [used |-> FALSE]
    /\ szOut = [bot |-> NoSize, rm |-> NoSize, bt |-> NoSize]
    /\ open_positions = NoPosition
    /\ equity_peak = 0
    /\ daily_equity_start = 0
    /\ tracker = <<>>
    /\ now = 0
    /\ cycles = 0
    /\ lhist = NoLiveHist
    /\ news_adjusts = FALSE

\* The call; `without` is the score of the same frame with the volume of
\* the bars before and without a move, where the last check adds nothing.
CalculateConfirmations ==
    /\ mode = "confirm"
    /\ cf.pc = "call"
    /\ cf' = [cf EXCEPT
                !.pc = "returned",
                !.conf = calculate_confirmations(cf.strategy, cf.frame,
                                                 cf.weekly_bias).conf,
                !.without = calculate_confirmations(
                              cf.strategy,
                              [cf.frame EXCEPT !.tick_volume = cf.frame.prev_volume,
                                               !.prev_close = cf.frame.close],
                              cf.weekly_bias).conf]
    /\ UNCHANGED <<mode, connVars, newsVars, obvVars, btVars, szVars, liveVars, exVars, optVars, loopVars, pairVars,
                   flatVars, ptVars, indVars, cacheVars>>

NextConfirm == CalculateConfirmations

SpecConfirm == InitConfirm /\ [][NextConfirm]_vars

(***************************************************************************)
(* DataManager.calculate_obv on a frame with the columns close and         *)
(* tick_volume, of no rows or more.                                        *)
(***************************************************************************)

MaxObvRows == 4        \* rows of the frame handed to calculate_obv

ObvCloses == {BasePrice, BasePrice + 100}
ObvVolumes == {10, 30}

\* The frames: every sequence of at most MaxObvRows rows.
ObvFrames ==
    UNION {[1 .. n -> [close : ObvCloses, tick_volume : ObvVolumes]] : n \in 0 .. MaxObvRows}

\* Mutant: a bar whose close did not rise counts as a fall.
obv_next_ties_fall(last, prev_close, close, volume) ==
    IF close > prev_close THEN last + volume ELSE last - volume

\* The value appended for bar i: the branches of the loop body.
obv_next(last, prev_close, close, volume) ==
    IF close > prev_close THEN last + volume
    ELSE IF close < prev_close THEN last - volume
    ELSE last

\* obv_values after the iterations of the loop from row `row` on, the rows
\* counted from 1.
RECURSIVE obv_loop(_, _, _)
obv_loop(df, row, obv_values) ==
    IF row > Len(df) THEN obv_values
    ELSE obv_loop(df, row + 1,
                  Append(obv_values,
                         obv_next(obv_values[Len(obv_values)], df[row - 1].close,
                                  df[row].close, df[row].tick_volume)))

\* calculate_obv: pd.Series(obv_values, index=df.index) raises when the
\* lengths differ, which they do for a frame without rows (obv_values is
\* [0]); the except branch then returns a series of len(df) zeros.
calculate_obv(df) ==
    LET obv_values == obv_loop(df, 2, <<0>>)
    IN  IF Len(obv_values) = Len(df) THEN obv_values
        ELSE [k \in 1 .. Len(df) |-> 0]

InitObv ==
    /\ mode = "obv"
    /\ \E df \in ObvFrames : obv = [pc |-> "call", df |-> df, ret |-> <<>>]
    \* the other programs do not run
    /\ conn = NoConnect
    /\ nw = NoNews
    /\ cf = NoConfirm
    /\ fleet = <<>>
    /\ loop = NoLoop
    /\ pair = NoPair
    /\ flat = NoFlat
    /\ pt = NoTracker
    /\ ind = NoIndicators
    /\ cache = NoCache
    /\ opt = NoOptimizer
    /\ wf = NoWalk
    /\ tsl = NoTrail
    /\ ppt = NoPartial
    /\ pc = "idle"
    /\ nBars = 0
    /\ i = 0
    /\ position = NoPosition
    /\ current_balance = 0
    /\ trades = <<>>
    /\ equity_curve = <<>>
    /\ report = [error |-> FALSE, pending |-> TRUE]
    /\ hist = NoHist
    /\ szIn = [used |-> FALSE]
    /\ szOut = [bot |-> NoSize, rm |-> NoSize, bt |-> NoSize]
    /\ open_positions = NoPosition
    /\ equity_peak = 0
    /\ daily_equity_start = 0
    /\ tracker = <<>>
    /\ now = 0
    /\ cycles = 0
    /\ lhist = NoLiveHist
    /\ news_adjusts = FALSE

\* The call.
CalculateObv ==
    /\ mode = "obv"
    /\ obv.pc = "call"
    /\ obv' = [obv EXCEPT !.pc = "returned", !.ret = calculate_obv(obv.df)]
    /\ UNCHANGED <<mode, connVars, newsVars, btVars, szVars, liveVars, exVars, optVars, loopVars, pairVars,
                   flatVars, ptVars, indVars, cacheVars, cfVars>>

NextObv == CalculateObv

SpecObv == InitObv /\ [][NextObv]_vars

(***************************************************************************)
(* NewsFilter.adjust_risk_parameters as execute_trade calls it, up to the  *)
(* position sizing.  RISK_PERCENT is in hundredths of a percent,           *)
(* SL_ATR_MULTIPLIER and the impact score in hundredths.                   *)
(***************************************************************************)

TradingStyles == {"scalping", "position", "swing"}
ImpactScores == {0, 10, 20, 30, 40, 60, 100}
NewsConfigs == [RISK_PERCENT : {100, 200}, SL_ATR_MULTIPLIER : {150, 200}]

InitNews ==
    /\ mode = "news"
    /\ \E trading_style \in TradingStyles, score \in ImpactScores, config \in NewsConfigs :
         nw = [pc |-> "qualified", trading_style |-> trading_style, score |-> score,
               original |-> config, config |-> config, raised |-> FALSE,
               adjusted |-> config, sized |-> FALSE, risk_percent |-> 0]
    \* the other programs do not run
    /\ conn = NoConnect
    /\ obv = NoObv
    /\ cf = NoConfirm
    /\ fleet = <<>>
    /\ loop = NoLoop
    /\ pair = NoPair
    /\ flat = NoFlat
    /\ pt = NoTracker
    /\ ind = NoIndicators
    /\ cache = NoCache
    /\ opt = NoOptimizer
    /\ wf = NoWalk
    /\ tsl = NoTrail
    /\ ppt = NoPartial
    /\ pc = "idle"
    /\ nBars = 0
    /\ i = 0
    /\ position = NoPosition
    /\ current_balance = 0
    /\ trades = <<>>
    /\ equity_curve = <<>>
    /\ report = [error |-> FALSE, pending |-> TRUE]
    /\ hist = NoHist
    /\ szIn = [used |-> FALSE]
    /\ szOut = [bot |-> NoSize, rm |-> NoSize, bt |-> NoSize]
    /\ open_positions = NoPosition
    /\ equity_peak = 0
    /\ daily_equity_start = 0
    /\ tracker = <<>>
    /\ now = 0
    /\ cycles = 0
    /\ lhist = NoLiveHist
    /\ news_adjusts = FALSE

\* execute_trade of a bot with a news filter, from the adjustment to the
\* call of calculate_position_size with adjusted_config['RISK_PERCENT']; an
\* exception leaves execute_trade before the sizing.
ExecuteTradeAdjusts ==
    /\ mode = "news"
    /\ nw.pc = "qualified"
    /\ LET r == adjust_risk_parameters(BT_SYMBOL, nw.config, nw.trading_style, nw.score)
       IN  nw' = [nw EXCEPT !.pc = IF r.raised THEN "raised" ELSE "sized",
                            !.raised = r.raised,
                            !.adjusted = r.params,
                            !.sized = ~r.raised,
                            !.risk_percent = IF r.raised THEN 0
                                             ELSE r.params.RISK_PERCENT]
    /\ UNCHANGED <<mode, connVars, btVars, szVars, liveVars, exVars, optVars, loopVars, pairVars,
                   flatVars, ptVars, indVars, cacheVars, cfVars, obvVars>>

NextNews == ExecuteTradeAdjusts

SpecNews == InitNews /\ [][NextNews]_vars

(***************************************************************************)
(* MultiInstrumentBot.mt5_connect, as initialize and check_connection call *)
(* it.  The recursion of mt5_connect is one step per activation: an        *)
(* activation makes one connection attempt and either returns, its result  *)
(* handed up through the activations below it, or calls mt5_connect again. *)
(***************************************************************************)

MaxConnectCalls == 3          \* calls of initialize or check_connection on one bot

MAX_RECONNECT_ATTEMPTS == 5   \* config.get("MAX_RECONNECT_ATTEMPTS", 5)

\* The values of MAX_RECONNECT_ATTEMPTS a configuration carries.
ReconnectLimits == {0, 2, MAX_RECONNECT_ATTEMPTS}

\* What one connection attempt does: mt5.initialize() and account_info()
\* succeed, initialize() returns False, account_info() returns None, or one
\* of them raises.
ConnectOutcomes == {"connected", "init_false", "no_account", "raises"}

\* What account_info() does in check_connection.
AccountOutcomes == {"account", "none", "raises"}

\* A bot after __init__: connection_attempts is 0.  tries counts the
\* connection attempts of the current call and failed tells whether all of
\* them failed.
NewConnection(limit) ==
    [pc |-> "idle", limit |-> limit, connection_attempts |-> 0, calls |-> 0,
     caller |-> "none", tries |-> 0, failed |-> TRUE, ret |-> FALSE]

\* initialize or check_connection calls mt5_connect.
call_mt5_connect(b, caller) ==
    [b EXCEPT !.pc = "connecting", !.calls = b.calls + 1, !.caller = caller,
              !.tries = 0, !.failed = TRUE, !.ret = FALSE]

\* Mutant: a successful connection leaves connection_attempts as it was.
mt5_connect_keeps_count(b, outcome) ==
    IF outcome = "connected"
    THEN [b EXCEPT !.pc = "returned", !.tries = b.tries + 1, !.failed = FALSE,
                   !.ret = TRUE]
    ELSE LET attempts == b.connection_attempts + 1
         IN  IF attempts <= b.limit
             THEN [b EXCEPT !.tries = b.tries + 1, !.connection_attempts = attempts]
             ELSE [b EXCEPT !.pc = "returned", !.tries = b.tries + 1,
                            !.connection_attempts = attempts, !.ret = FALSE]

\* One activation of mt5_connect (lines 48-62).  A successful attempt resets
\* connection_attempts and returns True; a failed one, an exception
\* included, counts itself and calls mt5_connect again while the count is at
\* most the limit, and returns False otherwise.
mt5_connect(b, outcome) ==
    IF outcome = "connected"
    THEN [b EXCEPT !.pc = "returned", !.tries = b.tries + 1, !.failed = FALSE,
                   !.connection_attempts = 0, !.ret = TRUE]
    ELSE LET attempts == b.connection_attempts + 1
         IN  IF attempts <= b.limit
             THEN [b EXCEPT !.tries = b.tries + 1, !.connection_attempts = attempts]
             ELSE [b EXCEPT !.pc = "returned", !.tries = b.tries + 1,
                            !.connection_attempts = attempts, !.ret = FALSE]

\* check_connection (lines 72-82): with an account it returns True without
\* connecting; without one, or on an exception, it calls mt5_connect.
check_connection(b, account) ==
    IF account = "account"
    THEN [b EXCEPT !.pc = "returned", !.calls = b.calls + 1, !.caller = "check_connection",
                   !.tries = 0, !.failed = TRUE, !.ret = TRUE]
    ELSE call_mt5_connect(b, "check_connection")

InitConnect ==
    /\ mode = "connect"
    /\ \E limit \in ReconnectLimits : conn = NewConnection(limit)
    \* the other programs do not run
    /\ nw = NoNews
    /\ obv = NoObv
    /\ cf = NoConfirm
    /\ fleet = <<>>
    /\ loop = NoLoop
    /\ pair = NoPair
    /\ flat = NoFlat
    /\ pt = NoTracker
    /\ ind = NoIndicators
    /\ cache = NoCache
    /\ opt = NoOptimizer
    /\ wf = NoWalk
    /\ tsl = NoTrail
    /\ ppt = NoPartial
    /\ pc = "idle"
    /\ nBars = 0
    /\ i = 0
    /\ position = NoPosition
    /\ current_balance = 0
    /\ trades = <<>>
    /\ equity_curve = <<>>
    /\ report = [error |-> FALSE, pending |-> TRUE]
    /\ hist = NoHist
    /\ szIn = [used |-> FALSE]
    /\ szOut = [bot |-> NoSize, rm |-> NoSize, bt |-> NoSize]
    /\ open_positions = NoPosition
    /\ equity_peak = 0
    /\ daily_equity_start = 0
    /\ tracker = <<>>
    /\ now = 0
    /\ cycles = 0
    /\ lhist = NoLiveHist
    /\ news_adjusts = FALSE

\* initialize is called on the bot.
Initialize ==
    /\ mode = "connect"
    /\ conn.pc \in {"idle", "returned"}
    /\ conn.calls < MaxConnectCalls
    /\ conn' = call_mt5_connect(conn, "initialize")
    /\ UNCHANGED <<mode, newsVars, obvVars, cfVars, cacheVars, indVars, ptVars, flatVars, pairVars, loopVars, btVars, szVars, liveVars, exVars, optVars>>

\* check_connection is called on the bot.
CheckConnection ==
    /\ mode = "connect"
    /\ conn.pc \in {"idle", "returned"}
    /\ conn.calls < MaxConnectCalls
    /\ \E account \in AccountOutcomes : conn' = check_connection(conn, account)
    /\ UNCHANGED <<mode, newsVars, obvVars, cfVars, cacheVars, indVars, ptVars, flatVars, pairVars, loopVars, btVars, szVars, liveVars, exVars, optVars>>

\* The current activation of mt5_connect makes its attempt.
ConnectAttempt ==
    /\ mode = "connect"
    /\ conn.pc = "connecting"
    /\ \E outcome \in ConnectOutcomes : conn' = mt5_connect(conn, outcome)
    /\ UNCHANGED <<mode, newsVars, obvVars, cfVars, cacheVars, indVars, ptVars, flatVars, pairVars, loopVars, btVars, szVars, liveVars, exVars, optVars>>

NextConnect == Initialize \/ CheckConnection \/ ConnectAttempt

SpecConnect == InitConnect /\ [][NextConnect]_vars

\* A started activation runs: the attempt, the sleep and the recursive call
\* are sequential code of one thread.
SpecConnectFair == SpecConnect /\ WF_vars(ConnectAttempt)

Init == InitBacktest \/ InitSizing \/ InitLive \/ InitTrailing \/ InitPartial \/ InitOptimizer
        \/ InitWalkForward \/ InitLoop \/ InitPair \/ InitFlat \/ InitTracker \/ InitIndicators \/ InitCache \/ InitConfirm \/ InitObv \/ InitNews \/ InitConnect

Next == NextBacktest \/ NextSizing \/ NextLive \/ NextTrailing \/ NextPartial \/ NextOptimizer
        \/ NextWalkForward \/ NextLoop \/ NextPair \/ NextFlat \/ NextTracker \/ NextIndicators \/ NextCache \/ NextConfirm \/ NextObv \/ NextNews \/ NextConnect

Spec == Init /\ [][Next]_vars

(***************************************************************************)
(* Properties of BacktestEngine.run_backtest                               *)
(***************************************************************************)

\* The trades of a log closed at or before a time.
ClosedBy(log, t) == SelectSeq(log, LAMBDA tr : tr.exit_time <= t)

RECURSIVE PeakEquity(_)
PeakEquity(curve) ==
    IF curve = <<>> THEN 0 ELSE Max(curve[1].equity, PeakEquity(Tail(curve)))

\* The bar of the last iteration closed at or beyond the stop of the position
\* that was open when the iteration began.
StopHitOnLastBar ==
    /\ hist.index >= WARMUP
    /\ hist.posBefore.open
    /\ \/ hist.posBefore.direction = "buy" /\ hist.close <= hist.posBefore.sl_price
       \/ hist.posBefore.direction = "sell" /\ hist.close >= hist.posBefore.sl_price

\* C1: after any prefix of processed bars the engine holds at most one open
\* position (every position created has been closed, except at most the one
\* held), and check_entry_conditions was invoked on the last bar only if no
\* position was open after that bar's exit step.
C1_AtMostOnePosition ==
    /\ hist.opened - hist.closed = (IF position.open THEN 1 ELSE 0)
    /\ Len(trades) = hist.closed
    /\ hist.entryEvaluated => ~hist.posAfterExit.open
    /\ (hist.index >= WARMUP /\ hist.posAfterExit.open) =>
          (~hist.entryEvaluated /\ position = hist.posAfterExit)

\* C1 witness: a bar was processed while a position was held through its
\* exit step, and the entry evaluation was skipped.
C1_Witness ==
    /\ hist.index > WARMUP
    /\ hist.posBefore.open
    /\ hist.exitSignal = "none"
    /\ hist.posAfterExit.open
    /\ ~hist.entryEvaluated
    /\ position.open

\* C2: no two Trade records of one run have overlapping half-open intervals
\* [entry_time, exit_time), and each interval is non-empty.
C2_NoOverlappingTrades ==
    /\ \A a \in 1 .. Len(trades) : trades[a].entry_time < trades[a].exit_time
    /\ \A a, b \in 1 .. Len(trades) :
         a # b => ~(/\ trades[a].entry_time < trades[b].exit_time
                    /\ trades[b].entry_time < trades[a].exit_time)

\* C2 witness: two trades back to back, the second entered on the bar that
\* closed the first.
C2_Witness ==
    /\ Len(trades) >= 2
    /\ trades[2].entry_time = trades[1].exit_time

\* C5: when the bar's close is at or beyond the stop of the open position
\* (close <= stop for a buy, close >= stop for a sell), the engine is Flat
\* after that bar's exit step, the exit reason is the stop-loss, and the Trade
\* appended has pnl = directional price delta x lots x value per unit minus
\* the commission.
C5_StopLossExitPnl ==
    StopHitOnLastBar =>
      /\ hist.exitSignal = "sl"
      /\ ~hist.posAfterExit.open
      /\ trades # <<>>
      /\ LET t == trades[Len(trades)]
             p == hist.posBefore
             delta == IF p.direction = "buy" THEN hist.close - p.entry_price
                      ELSE p.entry_price - hist.close
         IN  /\ t.exit_reason = "sl"
             /\ t.exit_time = TimeOf(hist.index)
             /\ t.entry_time = p.entry_time
             /\ t.exit_price = hist.close
             /\ t.pnl = delta * p.lots * (VALUE_PER_UNIT \div LOT_SCALE)
                          - COMMISSION_PER_LOT * p.lots

\* C5 witness: a buy position stopped out by a close below its stop.
C5_Witness ==
    /\ StopHitOnLastBar
    /\ hist.posBefore.direction = "buy"
    /\ hist.close < hist.posBefore.sl_price
    /\ trades # <<>>
    /\ trades[Len(trades)].pnl < 0

\* C6: the equity curve holds one point per processed bar after the initial
\* point, 1 + (N - 100) points at the end of a run over N bars, and each
\* point's equity is the initial balance plus the pnl of the trades closed up
\* to and including that point's bar: an open position adds nothing.
C6_EquityCurveRealizedOnly ==
    mode = "backtest" =>
      /\ Len(equity_curve) = 1 + (i - WARMUP)
      /\ (pc = "done" /\ nBars >= WARMUP) => Len(equity_curve) = 1 + (nBars - WARMUP)
      /\ \A k \in 1 .. Len(equity_curve) :
           equity_curve[k].equity =
             INITIAL_BALANCE + SumPnl(ClosedBy(trades, equity_curve[k].timestamp))

\* C6 witness: a finished run over more than 100 bars in which a trade
\* closed and a position is still open with the close away from its entry.
C6_Witness ==
    /\ pc = "done"
    /\ nBars > WARMUP + 1
    /\ trades # <<>>
    /\ position.open
    /\ hist.close # position.entry_price
    /\ equity_curve[Len(equity_curve)].equity # INITIAL_BALANCE

\* C7: when a position created during the run has not been closed by a bar,
\* the finished run still holds it open, no Trade was appended for it, and
\* the final balance, the last equity point and the report hold the closed
\* trades' pnl only.
C7_OpenPositionLeftUnclosed ==
    (pc = "done" /\ hist.opened > hist.closed) =>
      /\ position.open
      /\ Len(trades) = hist.closed
      /\ \A a \in 1 .. Len(trades) : trades[a].entry_time # position.entry_time
      /\ current_balance = INITIAL_BALANCE + SumPnl(trades)
      /\ equity_curve[Len(equity_curve)].equity = current_balance
      /\ \/ report.error /\ trades = <<>>
         \/ /\ ~report.error
            /\ report.final_balance = current_balance
            /\ report.total_trades = Len(trades)
            /\ report.total_pnl = SumPnl(trades)

\* C7 witness: a finished run with a closed trade and a position still open.
C7_Witness ==
    /\ pc = "done"
    /\ position.open
    /\ trades # <<>>
    /\ ~report.error

\* C8: a position is opened on a bar only if the drawdown of the balance
\* from the equity peak is below MAX_DRAWDOWN percent.  (The engine has no
\* such gate: this statement fails.)
C8_EntryOnlyIfRiskGatePasses ==
    (hist.index >= WARMUP /\ position.open /\ position.entry_index = hist.index) =>
      (PeakEquity(equity_curve) - current_balance) * (PERCENT \div MAX_DRAWDOWN)
         < PeakEquity(equity_curve)

(***************************************************************************)
(* Properties of the entry and exit decisions, engine and live bot         *)
(***************************************************************************)

\* A position was created by the engine on the last bar.
BtCreated ==
    hist.index >= WARMUP /\ position.open /\ position.entry_index = hist.index

\* A position was recorded by the bot in the last cycle.
LiveCreated ==
    lhist.stage = "full" /\ open_positions.open /\ open_positions.entry_time = lhist.time

\* A side's score qualifies against the other side's.
Qualifies(side, conf) ==
    LET own == IF side = "buy" THEN conf[1] ELSE conf[2]
        other == IF side = "buy" THEN conf[2] ELSE conf[1]
    IN  own >= MIN_CONFIRMATIONS /\ own > other

\* C3: an entry in a direction is taken only if that direction's score is at
\* least MIN_CONFIRMATIONS and strictly greater than the opposite score, and
\* with equal scores nothing is opened: in the engine no position is created,
\* in the live bot no entry order is sent and no position is recorded.
C3_EntryOnlyIfQualified ==
    /\ BtCreated => Qualifies(position.direction, hist.conf)
    /\ (hist.entryEvaluated /\ hist.conf[1] = hist.conf[2]) =>
          ~BtCreated /\ position = hist.posAfterExit
    /\ lhist.entryOrders > 0 =>
          lhist.entrySide \in {"buy", "sell"} /\ Qualifies(lhist.entrySide, lhist.conf)
    /\ LiveCreated =>
          lhist.entryOrders = 1 /\ open_positions.direction = lhist.entrySide
    /\ (lhist.entryEvaluated /\ lhist.conf[1] = lhist.conf[2]) =>
          lhist.entryOrders = 0 /\ ~LiveCreated /\ ~open_positions.open

\* C3 witness: a live cycle evaluated an entry on a tie at the minimum score
\* and opened nothing.
C3_Witness ==
    /\ lhist.stage = "full"
    /\ lhist.entryEvaluated
    /\ lhist.conf[1] = lhist.conf[2]
    /\ lhist.conf[1] >= MIN_CONFIRMATIONS
    /\ lhist.entryOrders = 0
    /\ ~open_positions.open

\* The engine's exit rules on the last bar, in their fixed order.
BtFirstRule ==
    LET p == hist.posBefore
        sl == IF p.direction = "buy" THEN hist.close <= p.sl_price
              ELSE hist.close >= p.sl_price
        tp == IF p.direction = "buy" THEN hist.close >= p.tp_price
              ELSE hist.close <= p.tp_price
        held == TimeOf(hist.index) - p.entry_time
    IN  IF sl THEN "sl"
        ELSE IF tp THEN "tp"
        ELSE IF held >= MAX_TRADE_HOURS THEN "time"
        ELSE "none"

\* The trades of a log that closed at a time.
ClosedAt(log, t) == SelectSeq(log, LAMBDA tr : tr.exit_time = t)

\* The live bot's exit rules in the last cycle, in their fixed order; the
\* three advanced rules are consulted only when check_advanced_exits read a
\* price.
LiveFirstRule ==
    LET p == lhist.posBefore
        price == lhist.tick.last
        sl == IF p.direction = "buy" THEN price <= p.sl_price ELSE price >= p.sl_price
        tp == IF p.direction = "buy" THEN price >= p.tp_price ELSE price <= p.tp_price
        time == lhist.time - p.entry_time >= MAX_TRADE_HOURS
        volatility == lhist.df.ATR > VOL_THRESHOLD * lhist.df.avgATR
        rsi == IF p.direction = "buy" THEN lhist.df.RSI > RSI_EXIT_LEVEL
               ELSE lhist.df.RSI < RSI_FULL - RSI_EXIT_LEVEL
    IN  IF sl THEN "sl"
        ELSE IF tp THEN "tp"
        ELSE IF ~lhist.tick2ok THEN "none"
        ELSE IF time THEN "time"
        ELSE IF volatility THEN "volatility"
        ELSE IF rsi THEN "rsi_extreme"
        ELSE "none"

\* The exit step of the last live cycle ran on a held position with a price.
LiveExitEvaluated ==
    lhist.stage = "full" /\ lhist.posBefore.open /\ lhist.tick.ok

\* C4: the exit reason is that of the first rule that holds, in the order
\* stop-loss, take-profit, time in the engine and stop-loss, take-profit,
\* time, volatility expansion, RSI extreme in the live bot, and one exit is
\* performed: the engine appends exactly one Trade on that bar, with that
\* reason; the bot sends exactly one closing order and records at most one
\* trade, with that reason.  When no rule holds there is no exit.
C4_FirstMatchingExitRule ==
    /\ (hist.index >= WARMUP /\ hist.posBefore.open) =>
          LET closed == ClosedAt(trades, TimeOf(hist.index))
          IN  /\ hist.exitSignal = BtFirstRule
              /\ Len(closed) = (IF BtFirstRule = "none" THEN 0 ELSE 1)
              /\ BtFirstRule # "none" =>
                    /\ closed[1].exit_reason = BtFirstRule
                    /\ closed[1].entry_time = hist.posBefore.entry_time
                    /\ ~hist.posAfterExit.open
              /\ BtFirstRule = "none" => hist.posAfterExit = hist.posBefore
    /\ LiveExitEvaluated =>
          /\ lhist.exitReason = LiveFirstRule
          /\ lhist.exitOrders = (IF LiveFirstRule = "none" THEN 0 ELSE 1)
          /\ lhist.recorded <= lhist.exitOrders
          /\ lhist.recorded = 1 =>
                /\ tracker[Len(tracker)].exit_reason = LiveFirstRule
                /\ tracker[Len(tracker)].exit_time = lhist.time
                /\ tracker[Len(tracker)].entry_time = lhist.posBefore.entry_time
    /\ (lhist.stage = "full" /\ ~LiveExitEvaluated) =>
          lhist.exitOrders = 0 /\ lhist.recorded = 0

\* C4 witness: in a live cycle the time rule and the volatility rule both
\* held, neither stop nor target was hit, and the trade was recorded with the
\* time reason.
C4_Witness ==
    /\ LiveExitEvaluated
    /\ lhist.time - lhist.posBefore.entry_time >= MAX_TRADE_HOURS
    /\ lhist.df.ATR > VOL_THRESHOLD * lhist.df.avgATR
    /\ lhist.exitReason = "time"
    /\ lhist.recorded = 1
    /\ tracker[Len(tracker)].exit_reason = "time"

(***************************************************************************)
(* Properties of the live risk gate                                        *)
(***************************************************************************)

\* The last cycle called check_risk_limits.
RiskChecked == lhist.stage \in {"risk", "closed", "spread", "nodata", "full"}

\* (a) daily PnL% <= -DAILY_LOSS_LIMIT, for a daily start above zero
DailyLossReached ==
    /\ lhist.start > 0
    /\ (lhist.equity - lhist.start) * (PERCENT \div DAILY_LOSS_LIMIT) <= 0 - lhist.start

\* (b) drawdown from the running equity peak >= MAX_DRAWDOWN, for a peak
\* above zero
DrawdownReached ==
    /\ lhist.peak > 0
    /\ (lhist.peak - lhist.equity) * (PERCENT \div MAX_DRAWDOWN) >= lhist.peak

\* (c) the symbol's open-position count >= MAX_OPEN_POSITIONS
PositionCapReached == lhist.count >= MAX_OPEN_POSITIONS

\* A cycle in which check_risk_limits returned False ended there: no order
\* was sent, nothing was recorded, the bot's position is as it was.
BlockedCycleDoesNothing ==
    (RiskChecked /\ ~lhist.riskOk) =>
      /\ lhist.stage = "risk"
      /\ lhist.entryOrders = 0
      /\ lhist.exitOrders = 0
      /\ lhist.recorded = 0
      /\ open_positions = lhist.posBefore

\* C9 as stated: with account data available check_risk_limits returns
\* False exactly when (a), (b) or (c) holds, and a cycle in which it returns
\* False sends no entry order and records no position.
C9_RiskGateExactlyThreeLimits ==
    /\ (RiskChecked /\ lhist.accountOk) =>
          (~lhist.riskOk <=> (DailyLossReached \/ DrawdownReached \/ PositionCapReached))
    /\ BlockedCycleDoesNothing

\* C9, amended: with account data available check_risk_limits returns False
\* exactly when (a), (b) or (c) holds or a percentage cannot be computed
\* because the daily starting equity or the equity peak is zero; a cycle in
\* which it returns False sends no entry order and records no position.
C9_RiskGateLimitsOrZeroBase ==
    /\ (RiskChecked /\ lhist.accountOk) =>
          (~lhist.riskOk <=> \/ lhist.start = 0
                             \/ lhist.peak = 0
                             \/ DailyLossReached
                             \/ DrawdownReached
                             \/ PositionCapReached)
    /\ (RiskChecked /\ ~lhist.accountOk) => ~lhist.riskOk
    /\ BlockedCycleDoesNothing

\* C9 witness: a cycle blocked by the drawdown limit alone, at exactly
\* MAX_DRAWDOWN percent below a peak the bot had raised, with a qualifying
\* account and no position counted.
C9_Witness ==
    /\ lhist.stage = "risk"
    /\ lhist.accountOk
    /\ ~lhist.riskOk
    /\ lhist.start > 0
    /\ lhist.peak > lhist.start
    /\ DrawdownReached
    /\ ~DailyLossReached
    /\ ~PositionCapReached
    /\ (lhist.peak - lhist.equity) * (PERCENT \div MAX_DRAWDOWN) = lhist.peak

(***************************************************************************)
(* Properties of position sizing                                           *)
(***************************************************************************)

\* The stop distance of the sizing call.
SizingDistance ==
    Abs((IF szIn.side = "buy" THEN szIn.tick.ask ELSE szIn.tick.bid) - szIn.stop)

\* The inputs for which the bot's sizing has no positive risk per lot.
BotDegenerate ==
    \/ ~szIn.account.ok
    \/ ~szIn.tick.ok
    \/ SizingDistance = 0
    \/ szIn.sym # "metal" /\ (~szIn.info.ok \/ szIn.info.trade_contract_size <= 0)

\* The same for the RiskManager, which reads the contract size of every symbol.
RmDegenerate ==
    \/ ~szIn.account.ok
    \/ ~szIn.tick.ok
    \/ SizingDistance = 0
    \/ ~szIn.info.ok
    \/ szIn.sym # "metal" /\ szIn.info.trade_contract_size <= 0

CommissionAdjustedLots(equity, risk_permille, risk_per_lot) ==
    LET risk_amount == risk_amount_of(equity, risk_permille)
        estimated == QDiv(risk_amount, Money(risk_per_lot))
        drag == QMul(Money(COMMISSION_PER_LOT * LOT_SCALE), estimated)
        reduced == QMax0(QSub(risk_amount, drag))
    IN  Max(MIN_LOT, Min(MAX_LOT, QRoundScaled(QDiv(reduced, Money(risk_per_lot)), LOT_SCALE)))

\* The documented risk per lot: a fixed value per 0.01 of price for metals,
\* the distance times the contract size for the other instruments.
DocumentedRiskPerLot ==
    IF szIn.sym = "metal" THEN SizingDistance * METAL_POINT
    ELSE SizingDistance * szIn.info.trade_contract_size

\* C11: the lot size is the commission-reduced risk amount divided by the
\* risk per lot, rounded to two decimals and clamped to [MIN_LOT, MAX_LOT],
\* with the metals' fixed value per 0.01 or the others' contract size as
\* risk per lot, in the live sizer and in the sizing of a backtest entry.
C11_CommissionAdjustedSizeEverywhere ==
    /\ szOut.bot.done /\ ~BotDegenerate =>
          szOut.bot.lots = CommissionAdjustedLots(szIn.account.equity, szIn.risk,
                                                  DocumentedRiskPerLot)
    /\ szOut.bt.done /\ szOut.bt.sized /\ szIn.sym = "metal" =>
          szOut.bt.lots = CommissionAdjustedLots(szIn.account.equity, szIn.risk,
                                                 DocumentedRiskPerLot)

(***************************************************************************)
(* Properties of the realized pnl                                          *)
(***************************************************************************)

\* The sign law on a direction, an entry and exit price and a gross pnl.
SignLaw(direction, entry_price, exit_price, gross) ==
    IF direction = "buy" THEN (gross > 0) <=> (exit_price > entry_price)
    ELSE (gross > 0) <=> (exit_price < entry_price)

\* C12: for every closed trade the pnl before commission of a buy is
\* positive exactly when the exit price is above the entry price, and that
\* of a sell exactly when the exit price is below the entry price.
C12_PnlSignLaw ==
    /\ \A k \in 1 .. Len(trades) :
          SignLaw(trades[k].direction, trades[k].entry_price, trades[k].exit_price,
                  trades[k].pnl + trades[k].commission)
    /\ \A k \in 1 .. Len(tracker) :
          SignLaw(tracker[k].direction, tracker[k].entry_price, tracker[k].exit_price,
                  tracker[k].pnl)

\* C12 witness: the engine has closed a sell below its entry price with a
\* positive pnl before commission.
C12_Witness ==
    \E k \in 1 .. Len(trades) :
        /\ trades[k].direction = "sell"
        /\ trades[k].exit_price < trades[k].entry_price
        /\ trades[k].pnl + trades[k].commission > 0

\* The gross directional pnl of a closed trade.
GrossPnl(t) ==
    IF t.direction = "buy"
    THEN (t.exit_price - t.entry_price) * t.lots * (VALUE_PER_UNIT \div LOT_SCALE)
    ELSE (t.entry_price - t.exit_price) * t.lots * (VALUE_PER_UNIT \div LOT_SCALE)

\* C13: the pnl of every recorded trade is the gross directional pnl less
\* the position's commission, in the engine's trade log and in the live
\* bot's tracker.
C13_RecordedPnlNetOfCommission ==
    /\ \A k \in 1 .. Len(trades) :
          /\ trades[k].commission = COMMISSION_PER_LOT * trades[k].lots
          /\ trades[k].pnl = GrossPnl(trades[k]) - trades[k].commission
    /\ \A k \in 1 .. Len(tracker) :
          tracker[k].pnl = GrossPnl(tracker[k]) - COMMISSION_PER_LOT * tracker[k].lots

(***************************************************************************)
(* Properties of the exit strategies                                       *)
(***************************************************************************)

\* b is at least as tight a stop as a for the direction.
NotLooser(direction, a, b) == IF direction = "buy" THEN b >= a ELSE b <= a

\* The last live cycle evaluated the advanced exits of a position and left
\* it open.
LiveTrailed ==
    /\ lhist.posBefore.open
    /\ open_positions.open
    /\ open_positions.entry_time = lhist.posBefore.entry_time

\* C14: the stop trailing_stop_atr returns is never looser than the
\* position's stop nor than the stop it returned on the previous call, and
\* the position's sl_price as the live bot updates it never loosens: it
\* never falls for a buy and never rises for a sell.
C14_TrailingStopNeverLoosens ==
    /\ tsl.calls > 0 =>
          /\ NotLooser(tsl.position.direction, tsl.before, tsl.returned)
          /\ NotLooser(tsl.position.direction, tsl.last, tsl.returned)
          /\ NotLooser(tsl.position.direction, tsl.before, tsl.position.sl_price)
    /\ LiveTrailed =>
          NotLooser(open_positions.direction, lhist.posBefore.sl_price,
                    open_positions.sl_price)

\* C14 witness: a buy position's stop was raised by one call and a later
\* call, whose own price less ATR distance lies below it, returned the
\* raised stop unchanged.
C14_Witness ==
    /\ tsl.calls >= 2
    /\ tsl.position.direction = "buy"
    /\ \A sl \in TrailStops : tsl.before > sl
    /\ tsl.returned = tsl.before
    /\ tsl.position.sl_price = tsl.before

\* The levels of the list whose taken key is set in a set of keys.
FlaggedLevels(keys) == {k \in 1 .. Len(ppt.levels) : ppt.levels[k][1] \in keys}

\* The levels the last call's price reached and found unflagged.
ReachedUntaken ==
    {k \in 1 .. Len(ppt.levels) :
        /\ profit_reaches(ppt.position, ppt.price, ppt.levels[k][1])
        /\ k \notin FlaggedLevels(ppt.before)}

\* The thresholds of the list are pairwise distinct.
DistinctThresholds ==
    \A j, k \in 1 .. Len(ppt.levels) : j # k => ppt.levels[j][1] # ppt.levels[k][1]

\* What holds of the last call on any list: no level has signalled twice,
\* no flag was cleared, the call returned the closePct of the first reached
\* and unflagged level, or 0 with the flags unchanged when there is none.
PartialCallLaw ==
    /\ \A k \in DOMAIN ppt.signals : ppt.signals[k] <= 1
    /\ ppt.before \subseteq ppt.position.taken
    /\ IF ReachedUntaken = {}
       THEN ppt.ret = 0 /\ ppt.level = 0 /\ ppt.position.taken = ppt.before
       ELSE /\ ppt.level \in ReachedUntaken
            /\ \A k \in ReachedUntaken : ppt.level <= k
            /\ ppt.ret = ppt.levels[ppt.level][2]
            /\ ppt.levels[ppt.level][1] \in ppt.position.taken

\* C15 as stated: on any list of levels every level signals at most once, a
\* call returns the first reached level not yet taken and marks that level
\* only, and a call that reaches no untaken level returns 0 and changes no
\* flag.
C15_EachLevelOwnFlag ==
    ppt.calls > 0 =>
        /\ PartialCallLaw
        /\ ppt.level > 0 =>
              FlaggedLevels(ppt.position.taken) = FlaggedLevels(ppt.before) \cup {ppt.level}

\* C15, amended: the same on every list, except that a call marks the key
\* of the threshold of the level it signals: it marks that level only when
\* the thresholds are pairwise distinct, and otherwise every level with the
\* same threshold with it.
C15_FlagPerThreshold ==
    ppt.calls > 0 =>
        /\ PartialCallLaw
        /\ ppt.level > 0 =>
              /\ ppt.position.taken = ppt.before \cup {ppt.levels[ppt.level][1]}
              /\ FlaggedLevels(ppt.position.taken) =
                    FlaggedLevels(ppt.before)
                    \cup {k \in 1 .. Len(ppt.levels) :
                            ppt.levels[k][1] = ppt.levels[ppt.level][1]}
              /\ DistinctThresholds =>
                    FlaggedLevels(ppt.position.taken) =
                        FlaggedLevels(ppt.before) \cup {ppt.level}

\* C15 witness: on the configured list the first call signalled the first
\* level, a second call at a price beyond the first two thresholds
\* signalled the second level, and a third call at that price returned 0.
C15_Witness ==
    /\ ppt.calls = MaxPartialCalls
    /\ DistinctThresholds
    /\ Len(ppt.levels) > 2
    /\ ppt.signals[1] = 1 /\ ppt.signals[2] = 1 /\ ppt.signals[3] = 0
    /\ ppt.ret = 0
    /\ profit_reaches(ppt.position, ppt.price, ppt.levels[2][1])

(***************************************************************************)
(* Properties of the optimizer                                             *)
(***************************************************************************)

\* The trials of the current call whose backtest did k.
TrialsOfKind(k) == {j \in 1 .. Len(opt.log) : opt.log[j].kind = k}

\* The greatest score of a non-empty list of trial results.
MaxScore(rs) ==
    CHOOSE s \in {rs[j].score : j \in 1 .. Len(rs)} :
        \A j \in 1 .. Len(rs) : rs[j].score <= s

\* C16: every call of optimize_parameters that returns, a repeated call on
\* the same optimizer included, returns in all_results exactly one result
\* per combination of the grid less the trials with the error marker, and
\* a best_score that is the greatest score among those results.
C16_AllResultsAreThisCallsTrials ==
    opt.pc = "returned" =>
        /\ Len(opt.ret.all_results) = Len(opt.combos) - Cardinality(TrialsOfKind("error"))
        /\ opt.ret.all_results # <<>> => opt.ret.best_score = MaxScore(opt.ret.all_results)

\* The number of combinations of the candidate lists from key m on.
RECURSIVE CombinationsFrom(_, _)
CombinationsFrom(grid, m) ==
    IF m > Len(grid) THEN 1 ELSE Len(grid[m]) * CombinationsFrom(grid, m + 1)

\* The j-th combination of the Cartesian product in enumeration order: the
\* last key varies fastest.
NthCombination(grid, j) ==
    [m \in 1 .. Len(grid) |->
        grid[m][(((j - 1) \div CombinationsFrom(grid, m + 1)) % Len(grid[m])) + 1]]

\* The trials of the current call that attained its greatest score.
BestTrials ==
    {j \in TrialsOfKind("score") :
        \A h \in TrialsOfKind("score") : opt.log[h].score <= opt.log[j].score}

\* C17: the backtests of a call are run on the combinations of the full
\* Cartesian product of the grid, one each, in enumeration order, and the
\* best_params returned are the first combination in that order among
\* those with the greatest score.
C17_OneBacktestPerCombinationFirstBest ==
    opt.pc \in {"trials", "returned", "raised"} =>
        /\ Len(opt.combos) = CombinationsFrom(opt.grid, 1)
        /\ \A j \in 1 .. Len(opt.combos) : opt.combos[j] = NthCombination(opt.grid, j)
        /\ opt.run = SubSeq(opt.combos, 1, opt.k)
        /\ opt.pc = "returned" =>
              /\ opt.run = opt.combos
              /\ BestTrials # {} =>
                    \E j \in BestTrials :
                        /\ \A h \in BestTrials : j <= h
                        /\ opt.ret.best_params = opt.combos[j]
                        /\ opt.ret.best_score = opt.log[j].score

\* C17 witness: a call over a grid of two keys with two candidates each has
\* returned; the second and the fourth combination tied at the greatest
\* score and the second was returned as best_params.
C17_Witness ==
    /\ opt.pc = "returned"
    /\ Len(opt.combos) = 4
    /\ BestTrials = {2, 4}
    /\ 1 \in TrialsOfKind("score")
    /\ opt.ret.best_params = <<1, 2>>

(***************************************************************************)
(* Properties of the walk-forward optimisation                             *)
(***************************************************************************)

\* The slice <<start, stop>> is a non-empty range of bars of the series.
SliceInSeries(s) == 0 <= s[1] /\ s[1] < s[2] /\ s[2] <= wf.total_length

\* C18: a walk-forward call with n_windows windows that returns, returns
\* exactly n_windows window results, each with a train period and a test
\* period that are non-empty and lie within the series.
C18_ReturnsEveryWindow ==
    wf.pc = "returned" =>
        /\ Len(wf.results) = wf.n_windows
        /\ \A j \in 1 .. Len(wf.results) :
              /\ SliceInSeries(wf.results[j].train_period)
              /\ SliceInSeries(wf.results[j].test_period)

\* The first trial with the greatest score in the log of an optimizer's call.
FirstBestOf(o) ==
    LET scored == {j \in 1 .. Len(o.log) : o.log[j].kind = "score"}
        best == {j \in scored : \A h \in scored : o.log[h].score <= o.log[j].score}
    IN  CHOOSE j \in best : \A h \in best : j <= h

\* The last call of the loop recorded a window result.
WindowRecorded ==
    /\ wf.pc \in {"windows", "returned"}
    /\ wf.results # <<>>
    /\ wf.optimizer # NoOptimizer
    /\ wf.results[Len(wf.results)].window = wf.i - 1

\* C19: in every window result the test period starts where the train
\* period ends and the slices handed to the optimizer and to the test
\* backtest are those periods, so that no bar is in both; the parameters of
\* the test backtest are the best parameters of the window's own optimizer,
\* which saw the train slice only.
C19_TestFollowsTrainOnOwnBestParams ==
    /\ \A j \in 1 .. Len(wf.results) :
          LET r == wf.results[j]
          IN  /\ r.test_period[1] = r.train_period[2]
              /\ r.train_data = r.train_period
              /\ r.test_data = r.test_period
              /\ r.train_data[2] <= r.test_data[1]
              /\ r.test_params = r.best_params
    /\ WindowRecorded =>
          LET r == wf.results[Len(wf.results)]
              o == wf.optimizer
          IN  /\ o.data = r.train_period
              /\ o.calls = 1
              /\ Len(o.results) = Len(o.log) - Cardinality({j \in 1 .. Len(o.log) :
                                                              o.log[j].kind = "error"})
              /\ r.test_params = o.combos[FirstBestOf(o)]
              /\ r.train_score = o.log[FirstBestOf(o)].score

\* C19 witness: the second window of a call was recorded; its optimizer had
\* the error marker on the first combination and chose the second, on
\* which the test backtest was run on the bars after the train slice.
C19_Witness ==
    /\ WindowRecorded
    /\ Len(wf.results) = 2
    /\ wf.optimizer.log[1].kind = "error"
    /\ wf.results[2].test_params = <<2>>
    /\ wf.results[2].train_period[1] > 0
    /\ wf.results[2].test_data[1] = wf.results[2].train_data[2]

\* C20: a failing trial or window does not end the sweep: neither a
\* backtest that raises nor a training optimisation without a successful
\* trial makes an exception leave optimize_parameters or
\* walk_forward_optimization; the remaining trials and windows are run
\* and the call returns.
C20_FailureDoesNotEndSweep ==
    /\ opt.pc # "raised"
    /\ wf.pc # "raised"

(***************************************************************************)
(* Properties of the main trading loop                                     *)
(***************************************************************************)

\* C21: whatever a bot's cycle does (early return, exception in the cycle
\* or in the dashboard update that follows it), the open position, equity
\* peak and trade log of every other bot are as they were before it, the
\* loop keeps running, and when the for loop of an iteration is over the
\* cycle of every bot has run in that iteration.
C21_CycleFailureIsolated ==
    mode = "loop" =>
        /\ loop.pc = "running"
        /\ loop.last.bot # 0 /\ loop.ran # {} =>
              \A b \in 1 .. NumBots : b # loop.last.bot => fleet[b] = loop.before[b]
        /\ loop.ran = 1 .. (loop.cursor - 1)
        /\ loop.cursor = NumBots + 1 => loop.ran = 1 .. NumBots

\* C21 witness: in one iteration the first bot's cycle raised an exception
\* and its dashboard update failed too; the second bot's cycle then ran to
\* the end and opened a position, and the first bot is as its own cycle
\* left it.
C21_Witness ==
    /\ mode = "loop"
    /\ loop.cursor = NumBots + 1
    /\ loop.failed = {1}
    /\ loop.last.bot = 2
    /\ loop.last.stage = "full"
    /\ fleet[2].open
    /\ fleet[1] = loop.before[1]
    /\ loop.cycle_count = 0

(***************************************************************************)
(* Properties of the warm-up window of the backtest.                       *)
(***************************************************************************)

\* C22: the engine evaluates no exit and no entry and records no per-bar
\* equity point for a bar with index below 100: every bar it evaluates, the
\* entry bar of every position and of every trade, and the bar of every
\* equity point after the initial one have index at least 100; a finished run
\* over at most 100 bars evaluated no bar, has no trades and its balance is
\* the initial balance.
C22_NothingBeforeWarmup ==
    mode = "backtest" =>
      /\ hist # NoHist => hist.index >= WARMUP
      /\ position.open =>
           position.entry_index >= WARMUP /\ position.entry_time >= TimeOf(WARMUP)
      /\ \A k \in 1 .. Len(trades) : trades[k].entry_time >= TimeOf(WARMUP)
      /\ \A k \in 2 .. Len(equity_curve) : equity_curve[k].timestamp >= TimeOf(WARMUP)
      /\ (pc = "done" /\ nBars <= WARMUP) =>
           /\ hist = NoHist
           /\ trades = <<>>
           /\ ~position.open
           /\ current_balance = INITIAL_BALANCE
           /\ Len(equity_curve) = 1

\* C22 witness: a finished run over a series one bar short of the warm-up,
\* reporting that no trade was executed.
C22_Witness ==
    /\ mode = "backtest"
    /\ pc = "done"
    /\ nBars = WARMUP - 1
    /\ report.error
    /\ trades = <<>>
    /\ current_balance = INITIAL_BALANCE

(***************************************************************************)
(* Properties of two backtests over series with a common beginning.        *)
(***************************************************************************)

\* The two series have the same bars at rows 0 .. j.
AgreeThrough(j) == \A r \in 0 .. j : row_close(pair.a, r) = row_close(pair.b, r)

\* What a run decided and recorded through bar j.
Through(run, j) ==
    [decisions |-> SelectSeq(run.decisions, LAMBDA d : d.index <= j),
     trades |-> ClosedBy(run.trades, TimeOf(j)),
     equity_curve |-> SelectSeq(run.equity_curve, LAMBDA e : e.timestamp <= TimeOf(j))]

\* C23: no look-ahead.  Two runs with the same slippage draws over series
\* that agree on bars 0 .. j take the same exit and entry decisions and
\* record the same trades and equity points through bar j, and are in the
\* same state after bar j; the rows read for the indicators, the weekly and
\* daily levels and the confirmations at bar j are rows 0 .. j.
C23_NoLookAhead ==
    mode = "pair" =>
      /\ \A j \in (WARMUP - 1) .. (pair.i - 1) :
           AgreeThrough(j) => Through(pair.A, j) = Through(pair.B, j)
      /\ AgreeThrough(pair.i - 1) => pair.A = pair.B
      /\ \A idx \in WARMUP .. (pair.i - 1) :
           confirmation_rows(idx, WARMUP + MaxTail) \cup ATR_rows(idx) \subseteq 0 .. idx

\* C23 witness: two finished runs over series that agree through bar 100 and
\* differ at bar 101: both entered at bar 100, and they ended differently.
C23_Witness ==
    /\ mode = "pair"
    /\ pair.pc = "done"
    /\ AgreeThrough(WARMUP)
    /\ ~AgreeThrough(WARMUP + 1)
    /\ pair.A.decisions[1].entry # "none"
    /\ pair.A.decisions[1] = pair.B.decisions[1]
    /\ pair.A # pair.B

(***************************************************************************)
(* Properties of a backtest over a flat series.                            *)
(***************************************************************************)

\* C24: a run over a flat series opens no trade, with any of the strategies:
\* it never holds a position, records no trade, keeps the balance at the
\* initial balance and is not left by an exception.
C24_FlatSeriesOpensNoTrade ==
    mode = "flat" =>
      /\ flat.pc # "raised"
      /\ ~flat.run.position.open
      /\ flat.run.trades = <<>>
      /\ flat.run.balance = INITIAL_BALANCE
      /\ flat.pc = "done" => flat.report.error

(***************************************************************************)
(* Properties of the performance analytics.                                *)
(***************************************************************************)

\* The running peak of a list of equities at sample k.
RunningPeak(equities, k) ==
    CHOOSE m \in {equities[j] : j \in 1 .. k} : \A j \in 1 .. k : equities[j] <= m

\* The drawdown of sample k, absolute and as a percentage of the peak.
SampleDrawdown(equities, k) == RunningPeak(equities, k) - equities[k]
SampleDrawdownPct(equities, k) ==
    drawdown_pct_of(SampleDrawdown(equities, k), RunningPeak(equities, k))

\* The reported maxima are at least the drawdown of every sample.
CoversEverySample(equities, max_drawdown, max_drawdown_pct) ==
    \A k \in 1 .. Len(equities) :
      /\ max_drawdown >= SampleDrawdown(equities, k)
      /\ ~QLess(max_drawdown_pct, SampleDrawdownPct(equities, k))

\* C25: the drawdown and the drawdown percentage of every sample of an
\* equity curve are at least 0, and the maximum drawdown reported by the
\* engine and by the tracker, absolute and in percent, is at least that of
\* every sample.
C25_MaxDrawdownCoversEverySample ==
    mode = "tracker" =>
      LET equities == Equities(pt.equity_curve)
      IN  /\ \A k \in 1 .. Len(equities) :
               /\ SampleDrawdown(equities, k) >= 0
               /\ ~QLess(SampleDrawdownPct(equities, k), Q(0, 1))
          /\ (pt.ret.op = "calculate_stats" /\ ~pt.ret.stats.empty) =>
               CoversEverySample(equities, pt.ret.stats.max_drawdown,
                                 pt.ret.stats.max_drawdown_pct)
          /\ (pt.ret.op = "generate_report" /\ ~pt.ret.report.error) =>
               CoversEverySample(equities, pt.ret.report.max_drawdown,
                                 pt.ret.report.max_drawdown_pct)

\* The trade log the last call worked on has at least one trade and the call
\* returned statistics of it: the profit factor and the two counts.
ReturnedTradeStats ==
    IF pt.ret.op = "calculate_stats" /\ ~pt.ret.stats.empty
    THEN <<pt.ret.stats>>
    ELSE IF pt.ret.op = "generate_report" /\ ~pt.ret.report.error
    THEN <<pt.ret.report>>
    ELSE <<>>

\* |avg_win * winCount| / |avg_loss * lossCount|: the winning pnl over the
\* losing pnl, both as amounts.
GainOverLoss(log) ==
    Q(SumAbsPnl(SelectSeq(log, LAMBDA t : t.pnl > 0)),
      SumAbsPnl(SelectSeq(log, LAMBDA t : t.pnl <= 0)))

\* C26: for a trade log that is not empty, the engine's report and the
\* tracker's statistics count every trade as exactly one of winning
\* (pnl > 0) and losing (pnl <= 0); the profit factor is
\* |avg_win * winCount| / |avg_loss * lossCount| whenever the losing trades
\* lost anything, and it is infinity, not an error and not a clamped number,
\* when there is no losing trade.
C26_ProfitFactorAndCounts ==
    mode = "tracker" =>
      \A k \in 1 .. Len(ReturnedTradeStats) :
        LET s == ReturnedTradeStats[k]
            wins == {j \in 1 .. Len(pt.trades) : pt.trades[j].pnl > 0}
            losses == {j \in 1 .. Len(pt.trades) : pt.trades[j].pnl <= 0}
        IN  /\ pt.trades # <<>>
            /\ s.winning_trades = Cardinality(wins)
            /\ s.losing_trades = Cardinality(losses)
            /\ s.winning_trades + s.losing_trades = Len(pt.trades)
            /\ losses = {} => s.profit_factor = Infinity
            /\ (\E j \in losses : pt.trades[j].pnl < 0) =>
                 s.profit_factor = Finite(GainOverLoss(pt.trades))

\* C26 witness: statistics returned for a log of winning trades only, with
\* an infinite profit factor.
C26_Witness ==
    /\ mode = "tracker"
    /\ pt.ret.op = "calculate_stats"
    /\ Len(pt.trades) >= 2
    /\ \A j \in 1 .. Len(pt.trades) : pt.trades[j].pnl > 0
    /\ pt.ret.stats.profit_factor = Infinity
    /\ pt.ret.stats.losing_trades = 0

\* The pnl of the first k trades of a log.
RECURSIVE SumFirst(_, _)
SumFirst(log, k) == IF k = 0 THEN 0 ELSE SumFirst(log, k - 1) + log[k].pnl

\* C27: after any sequence of add_trade calls the tracker's trades are the
\* added trades in call order, its balance is the initial balance plus the
\* sum of their pnl, and its equity curve has, after the initial point, one
\* point per added trade, stamped with the trade's exit_time and carrying
\* the running balance after that trade.
C27_AddTradeBookkeeping ==
    mode = "tracker" =>
      /\ pt.trades = pt.calls
      /\ pt.current_balance = INITIAL_BALANCE + SumFirst(pt.calls, Len(pt.calls))
      /\ Len(pt.equity_curve) = 1 + Len(pt.calls)
      /\ pt.equity_curve[1].equity = INITIAL_BALANCE
      /\ \A k \in 1 .. Len(pt.calls) :
           /\ pt.equity_curve[k + 1].timestamp = pt.calls[k].exit_time
           /\ pt.equity_curve[k + 1].equity = INITIAL_BALANCE + SumFirst(pt.calls, k)

\* C27 witness: three trades added with exit times out of call order, a
\* loss between two gains.
C27_Witness ==
    /\ mode = "tracker"
    /\ pt.ret.op = "add_trade"
    /\ Len(pt.calls) = 3
    /\ pt.calls[1].pnl > 0
    /\ pt.calls[2].pnl < 0
    /\ pt.calls[3].pnl > 0
    /\ pt.calls[1].exit_time > pt.calls[2].exit_time
    /\ pt.current_balance # INITIAL_BALANCE

(***************************************************************************)
(* Properties of the indicator functions on malformed input.               *)
(***************************************************************************)

\* The input is malformed: not numeric, or a frame without a column.
Malformed(input) == input.kind \in {"non_numeric", "missing_column"}

\* C28: on a malformed or an empty input every indicator function of the
\* engine, of the live bot and of DataManager returns instead of raising,
\* and what it returns for a malformed input is a series of the input's
\* length filled with the neutral default: 50 for the RSI, 0 for the MACD
\* and the ATR.
C28_IndicatorsFallBackToDefaults ==
    (mode = "indicators" /\ ind.pc = "returned"
       /\ (Malformed(ind.input) \/ ind.input.rows = 0)) =>
      /\ ind.result.status # "raised"
      /\ ind.result.length = ind.input.rows
      /\ Malformed(ind.input) =>
           /\ ind.result.status = "default"
           /\ ind.result.fill = (IF ind.indicator = "rsi" THEN 50 ELSE 0)

(***************************************************************************)
(* Properties of the cached reads.                                         *)
(***************************************************************************)

\* The last read found an entry under its key.
HadEntry == cache.last.key \in DOMAIN cache.last.before

\* The age, at the last read, of the entry it found.
EntryAge == cache.last.at - cache.last.before[cache.last.key].timestamp

\* C30: a cached read returns a stored entry only when the entry is stored
\* under the key of the read and is younger than cache_timeout, and then it
\* returns that entry's data and fetches nothing; in every other case it
\* fetches.  A fetch that brings rates is returned and stored under the key
\* of the read, leaving the other keys alone; a fetch that fails or brings
\* nothing returns an empty result and leaves the store as it was.
C30_CacheServesOnlyFreshEntries ==
    (mode = "cache" /\ cache.reads > 0) =>
      /\ cache.last.ret.kind = "cached" =>
           /\ HadEntry
           /\ EntryAge < CACHE_TIMEOUT
           /\ cache.last.ret.data = cache.last.before[cache.last.key].data
           /\ ~cache.last.fetched
           /\ cache.store = cache.last.before
      /\ cache.last.ret.kind # "cached" =>
           /\ cache.last.fetched
           /\ ~HadEntry \/ EntryAge >= CACHE_TIMEOUT
      /\ (cache.last.fetched /\ cache.last.outcome = "rates") =>
           /\ cache.last.ret.kind = "fresh"
           /\ cache.last.key \in DOMAIN cache.store
           /\ cache.store[cache.last.key].data = cache.last.ret.data
           /\ cache.store[cache.last.key].timestamp >= cache.last.at
           /\ \A k \in DOMAIN cache.store \ {cache.last.key} :
                k \in DOMAIN cache.last.before /\ cache.store[k] = cache.last.before[k]
      /\ (cache.last.fetched /\ cache.last.outcome # "rates") =>
           /\ cache.last.ret.kind = "empty"
           /\ cache.store = cache.last.before

\* An entry exactly cache_timeout old was not served: the read fetched and
\* replaced it.
C30_Witness ==
    /\ mode = "cache"
    /\ cache.reads > 1
    /\ HadEntry
    /\ EntryAge = CACHE_TIMEOUT
    /\ cache.last.ret.kind = "fresh"
    /\ cache.store[cache.last.key].data # cache.last.before[cache.last.key].data

(***************************************************************************)
(* Properties of a cycle without market data.                              *)
(***************************************************************************)

\* C29: when the data source returns no rates (None or an empty array),
\* fetch_data returns an empty result and leaves its cache as it was; and a
\* cycle of run_single_cycle whose fetch_data returned an empty result ends
\* there: it sends no exit and no entry order, evaluates no entry, and
\* leaves open_positions and the trade log as they were.
C29_NoRatesSkipsTheCycle ==
    /\ (mode = "cache" /\ cache.component = "bot" /\ cache.last.fetched
          /\ cache.last.outcome \in {"none", "empty"}) =>
         /\ cache.last.ret.kind = "empty"
         /\ cache.store = cache.last.before
    /\ (mode = "live" /\ lhist.stage = "nodata") =>
         /\ lhist.exitOrders = 0
         /\ lhist.exitReason = "none"
         /\ ~lhist.entryEvaluated
         /\ lhist.entryOrders = 0
         /\ lhist.recorded = 0
         /\ lhist.posAfter = lhist.posBefore
         /\ open_positions = lhist.posBefore

\* A cycle that held a position and got no data.
C29_Witness ==
    /\ mode = "live"
    /\ lhist.stage = "nodata"
    /\ lhist.posBefore.open
    /\ open_positions.open

(***************************************************************************)
(* Properties of the volume and price-action confirmations.                *)
(***************************************************************************)

\* What the last check of the call added to buy and to sell.
AddedByLastCheck == <<cf.conf[1] - cf.without[1], cf.conf[2] - cf.without[2]>>

\* C31: the volume check of the Oil strategy and the strong-move check of
\* the Indices strategy add their weight to buy only under a bull weekly
\* bias and to sell only under a bear weekly bias; under a neutral bias
\* they add to neither side.
C31_PartialWeightNeedsAlignedBias ==
    (mode = "confirm" /\ cf.pc = "returned") =>
      /\ AddedByLastCheck[1] > 0 => cf.weekly_bias = "bull"
      /\ AddedByLastCheck[2] > 0 => cf.weekly_bias = "bear"
      /\ cf.weekly_bias = "neutral" => AddedByLastCheck = <<0, 0>>

(***************************************************************************)
(* Properties of the on-balance volume.                                    *)
(***************************************************************************)

\* C32: the series calculate_obv returns is as long as the frame, starts
\* at 0, and at each later bar is the value before plus the bar's volume
\* when the close rose, minus it when the close fell, and the value before
\* when the close is the same.
C32_ObvIsTheSignedRunningSum ==
    (mode = "obv" /\ obv.pc = "returned") =>
      /\ Len(obv.ret) = Len(obv.df)
      /\ Len(obv.df) > 0 => obv.ret[1] = 0
      /\ \A k \in 2 .. Len(obv.df) :
           /\ obv.df[k].close > obv.df[k - 1].close =>
                obv.ret[k] = obv.ret[k - 1] + obv.df[k].tick_volume
           /\ obv.df[k].close < obv.df[k - 1].close =>
                obv.ret[k] = obv.ret[k - 1] - obv.df[k].tick_volume
           /\ obv.df[k].close = obv.df[k - 1].close => obv.ret[k] = obv.ret[k - 1]

\* A returned call on a frame with a rise, a fall and an unchanged close.
C32_Witness ==
    /\ mode = "obv"
    /\ obv.pc = "returned"
    /\ Len(obv.df) = 4
    /\ obv.df[2].close > obv.df[1].close
    /\ obv.df[3].close < obv.df[2].close
    /\ obv.df[4].close = obv.df[3].close
    /\ obv.ret[4] = obv.df[2].tick_volume - obv.df[3].tick_volume

(***************************************************************************)
(* Properties of the entry gates of the live cycle.                        *)
(***************************************************************************)

\* The last cycle stopped at a gate for new entries: the news filter, the
\* risk limits, the market hours or the spread.
StoppedAtEntryGate == lhist.stage \in {"news", "risk", "closed", "spread"}

\* C33: a cycle with a working connection in which the bot holds an open
\* position evaluates that position's exit conditions, also when the news
\* filter, the risk limits (the open-position cap included), the market
\* hours or the spread check reject new entries in that cycle: no cycle of
\* a bot that holds a position stops at one of these gates.
C33_GatesBlockOnlyEntries ==
    (mode = "live" /\ open_positions.open) => ~StoppedAtEntryGate

(***************************************************************************)
(* Properties of the news adjustment of the risk parameters.               *)
(***************************************************************************)

\* The factor, in tenths, the claim gives for RISK_PERCENT.
ClaimedRiskTenths ==
    IF nw.trading_style = "scalping" THEN 10
    ELSE IF nw.score > impact_threshold(nw.trading_style) THEN 5
    ELSE IF 2 * nw.score > impact_threshold(nw.trading_style) THEN 8
    ELSE 10

\* The factor, in tenths, the claim gives for SL_ATR_MULTIPLIER.
ClaimedStopTenths ==
    IF nw.trading_style = "scalping" THEN 10
    ELSE IF nw.score > impact_threshold(nw.trading_style) THEN 15
    ELSE IF 2 * nw.score > impact_threshold(nw.trading_style) THEN 12
    ELSE 10

\* C34: adjust_risk_parameters leaves the configuration it is given as it
\* was and returns the original parameters for the scalping style, and for
\* any other style RISK_PERCENT x 0.5 and SL_ATR_MULTIPLIER x 1.5 above the
\* style's threshold, x 0.8 and x 1.2 above half of it, and the original
\* values otherwise; the risk percent is never raised, and the entry goes
\* on to the sizing with the adjusted value.
C34_NewsAdjustmentScalesRisk ==
    (mode = "news" /\ nw.pc # "qualified") =>
      /\ nw.config = nw.original
      /\ ~nw.raised
      /\ nw.adjusted.RISK_PERCENT * 10 = nw.original.RISK_PERCENT * ClaimedRiskTenths
      /\ nw.adjusted.SL_ATR_MULTIPLIER * 10
           = nw.original.SL_ATR_MULTIPLIER * ClaimedStopTenths
      /\ nw.adjusted.RISK_PERCENT <= nw.original.RISK_PERCENT
      /\ nw.sized
      /\ nw.risk_percent = nw.adjusted.RISK_PERCENT

(***************************************************************************)
(* Properties of the order of exits and entries within a bar.              *)
(***************************************************************************)

\* The last bar opened the position the engine holds.
OpenedOnLastBar == position.open /\ position.entry_index = hist.index

\* C35: on each bar the engine evaluates the exit of the position it held
\* before the bar and only then the entry.  The exit evaluated on a bar is
\* that of a position opened on an earlier bar, so a position opened on bar
\* i is first evaluated for exit on bar i+1 and every trade's exit_time is
\* later than its entry_time; the entry is evaluated exactly when no
\* position is left after the exit step, so a position closed on a bar can
\* be followed by a new one on the same bar, opened after the close was
\* recorded.
C35_ExitsBeforeEntries ==
    (mode = "backtest" /\ hist.index >= 0) =>
      /\ \A k \in 1 .. Len(trades) : trades[k].exit_time > trades[k].entry_time
      /\ hist.exitSignal # "none" =>
           /\ hist.posBefore.open
           /\ hist.posBefore.entry_index < hist.index
           /\ ~hist.posAfterExit.open
           /\ Len(trades) > 0
           /\ trades[Len(trades)].exit_time = TimeOf(hist.index)
           /\ trades[Len(trades)].entry_time = hist.posBefore.entry_time
      /\ hist.entryEvaluated = ~hist.posAfterExit.open
      /\ OpenedOnLastBar => (hist.entryEvaluated /\ ~hist.posAfterExit.open)
      /\ (OpenedOnLastBar /\ hist.posBefore.open) => hist.exitSignal # "none"
      /\ (position.open /\ ~OpenedOnLastBar) =>
           (position = hist.posBefore /\ hist.exitSignal = "none")

\* A bar that closed the position held before it and opened a new one.
C35_Witness ==
    /\ mode = "backtest"
    /\ OpenedOnLastBar
    /\ hist.posBefore.open
    /\ hist.exitSignal # "none"
    /\ trades[Len(trades)].exit_time = position.entry_time

(***************************************************************************)
(* Properties of the live bot's record of its position.                    *)
(***************************************************************************)

\* The position the bot holds is the one it held before the last cycle,
\* apart from its trailed stop.
StillHeld ==
    /\ open_positions.open
    /\ lhist.posBefore.open
    /\ [open_positions EXCEPT !.sl_price = lhist.posBefore.sl_price] = lhist.posBefore

\* C36: the live bot records a position only in a cycle whose entry order
\* the venue confirmed done, and drops the position it held, recording one
\* trade for it, only in a cycle whose closing order the venue confirmed
\* done.  An order that fails changes nothing: after a failed closing order
\* the position is still held and no trade is recorded, after a failed
\* entry order no position is recorded.  An entry order is sent only when
\* no position is held, so the bot never replaces a position it holds.
C36_PositionsFollowConfirmedOrders ==
    (mode = "live" /\ lhist.stage = "full") =>
      /\ LiveCreated <=> lhist.entryDone
      /\ lhist.entryDone => lhist.entryOrders = 1
      /\ lhist.recorded = (IF lhist.exitDone THEN 1 ELSE 0)
      /\ lhist.exitDone =>
           /\ lhist.exitOrders = 1
           /\ lhist.posBefore.open
           /\ ~StillHeld
           /\ tracker[Len(tracker)].entry_time = lhist.posBefore.entry_time
           /\ tracker[Len(tracker)].lots = lhist.posBefore.lots
      /\ (lhist.posBefore.open /\ ~lhist.exitDone) => (StillHeld /\ lhist.entryOrders = 0)
      /\ (lhist.entryOrders > 0 /\ ~lhist.entryDone) => ~open_positions.open
      /\ lhist.entryOrders > 0 => (~lhist.posBefore.open \/ lhist.exitDone)
      /\ (~lhist.posBefore.open /\ ~lhist.entryDone) => ~open_positions.open

\* A cycle whose closing order failed: the order was sent, the position is
\* still held and nothing was recorded.
C36_Witness ==
    /\ mode = "live"
    /\ lhist.stage = "full"
    /\ lhist.exitOrders = 1
    /\ ~lhist.exitDone
    /\ StillHeld
    /\ lhist.recorded = 0

(***************************************************************************)
(* Properties of the configurations of the grid search                     *)
(***************************************************************************)

\* The base configuration overlaid with the values of a combination.
Overlaid(params) ==
    [key \in {1, 3} \cup (1 .. Len(params)) |->
        IF key <= Len(params) THEN params[key] ELSE BaseConfig[key]]

\* C37: optimize_parameters never changes the optimizer's base
\* configuration; the configuration of every trial, of this call and of the
\* calls before it, is an object of its own, distinct from the base and from
\* the configuration of every other trial, and holds the base configuration
\* overlaid with exactly that trial's combination, so that no value of
\* another trial shows in it; and every trial has an engine of its own, built
\* on that trial's configuration, that starts flat with an empty trade log
\* and an empty equity curve.
C37_TrialsShareNoConfiguration ==
    mode = "optimizer" =>
        /\ opt.heap[opt.base_config] = BaseConfig
        /\ Len(opt.trials) = opt.backtests
        /\ \A j \in 1 .. Len(opt.trials) :
              /\ opt.trials[j].config # opt.base_config
              /\ opt.heap[opt.trials[j].config] = Overlaid(opt.trials[j].params)
              /\ opt.trials[j].engine.config = opt.trials[j].config
              /\ opt.trials[j].engine.position = NoPosition
              /\ opt.trials[j].engine.trades = <<>>
              /\ opt.trials[j].engine.equity_curve = <<>>
              /\ \A h \in 1 .. Len(opt.trials) :
                    h # j => /\ opt.trials[h].config # opt.trials[j].config
                             /\ opt.trials[h].engine.id # opt.trials[j].engine.id

\* C37 witness: a second call, over a grid of one key, has run a trial after
\* a first call whose trials set two keys; the latest trial's configuration
\* has its own value at key 1 and no key 2 at all, while an earlier trial's
\* configuration still holds the value 2 at key 2.
C37_Witness ==
    /\ mode = "optimizer"
    /\ opt.calls = 2
    /\ opt.k >= 1
    /\ Len(opt.grid) = 1
    /\ LET last == opt.trials[Len(opt.trials)]
       IN  /\ last.params = <<2>>
           /\ DOMAIN opt.heap[last.config] = {1, 3}
           /\ opt.heap[last.config][1] = 2
    /\ \E j \in 1 .. Len(opt.trials) :
          /\ opt.trials[j].params = <<1, 2>>
          /\ opt.heap[opt.trials[j].config][2] = 2

(***************************************************************************)
(* Properties of the connection to the terminal                            *)
(***************************************************************************)

\* What holds of a call of mt5_connect at every moment: it has made at most
\* MAX_RECONNECT_ATTEMPTS + 1 connection attempts; when it has returned with
\* every attempt failed it returned False; and when it has returned after a
\* successful attempt it returned True and connection_attempts is 0.
ConnectBounded ==
    mode = "connect" =>
        /\ conn.tries <= conn.limit + 1
        /\ (conn.pc = "returned" /\ conn.tries >= 1 /\ conn.failed) => ~conn.ret
        /\ (conn.pc = "returned" /\ conn.tries >= 1 /\ ~conn.failed) =>
              conn.ret /\ conn.connection_attempts = 0

\* C38: every call of mt5_connect returns; while the connection keeps
\* failing it makes at most MAX_RECONNECT_ATTEMPTS + 1 connection attempts
\* and returns False, and a successful connection returns True and resets
\* connection_attempts to 0.
C38_ConnectTerminates ==
    /\ []ConnectBounded
    /\ (mode = "connect" /\ conn.pc = "connecting") ~> (conn.pc = "returned")

\* C38 witness: with the limit of 5, a call of mt5_connect has returned
\* False after six failed attempts.
C38_Witness ==
    /\ mode = "connect"
    /\ conn.pc = "returned"
    /\ conn.limit = MAX_RECONNECT_ATTEMPTS
    /\ conn.tries = MAX_RECONNECT_ATTEMPTS + 1
    /\ conn.failed
    /\ ~conn.ret

(***************************************************************************)
(* Properties of the tracker's summary                                     *)
(***************************************************************************)

\* C39: in the statistics calculate_stats returns, net_profit is
\* final_balance - initial_balance, whatever the trade log.
C39_NetProfitIsBalanceChange ==
    (mode = "tracker" /\ pt.ret.op = "calculate_stats" /\ ~pt.ret.stats.empty) =>
        pt.ret.stats.net_profit = pt.ret.stats.final_balance - pt.ret.stats.initial_balance

(***************************************************************************)
(* The drawdown of the engine against the drawdown of the tracker          *)
(***************************************************************************)

\* Two drawdown results are the same: the absolute maximum and the
\* percentage.
SameDrawdown(a, b) ==
    /\ a.max_drawdown = b.max_drawdown
    /\ ~QLess(a.max_drawdown_pct, b.max_drawdown_pct)
    /\ ~QLess(b.max_drawdown_pct, a.max_drawdown_pct)

\* C40: on the equity sequence of the tracker, whenever the engine's report
\* or the tracker's statistics have been computed, BacktestEngine's
\* calculate_drawdown and PerformanceTracker's calculate_drawdown_stats give
\* the same maximum absolute drawdown and the same max_drawdown_pct.
C40_EngineAndTrackerDrawdownsAgree ==
    /\ (mode = "tracker" /\ pt.ret.op = "generate_report" /\ ~pt.ret.report.error) =>
          SameDrawdown(pt.ret.report, calculate_drawdown_stats(pt.equity_curve))
    /\ (mode = "tracker" /\ pt.ret.op = "calculate_stats" /\ ~pt.ret.stats.empty) =>
          SameDrawdown(pt.ret.stats, calculate_drawdown(Equities(pt.equity_curve)))

====
